---- MODULE Spec2Model ----
(***************************************************************************)
(* Finsliparn: the refinement orchestrator (src/mcp/tools.ts), the session *)
(* store with its advisory lock (SessionManager), the worktree manager and *)
(* the scoring engine, as a state machine.  One session id is tracked; a   *)
(* small set of concurrent callers invoke start, check (validate), vote,   *)
(* merge (finalize), cancel and clean on it.  Every await on the lock      *)
(* file, the session directory, the session document or the worktree       *)
(* directory is one atomic step, so the interleavings of the asynchronous  *)
(* handlers are the interleavings of the actions below.                    *)
(***************************************************************************)
EXTENDS Integers, Sequences, FiniteSets, TLC

\* ---------------------------------------------------------------- bounds
MaxCalls == 3
MaxIterInput == 2
MaxVoteRecords == 3
MaxTests == 23
MaxFiles == 11
MaxChangeTens == 51
MaxFailures == 2

\* ------------------------------------------------------ program constants
LOCK_TIMEOUT == 30000
LOCK_STALE_THRESHOLD == 60000
DEFAULT_MAX_ITERATIONS == 5
MAX_CHANGE_SCORE == 500
MAX_SPREAD_PENALTY == 50
MIN_COMPLETED_TO_MERGE == 2
PERFECT_SCORE == 100

\* The two logical callers whose calls may overlap.  Callers are
\* interchangeable, so caller 1 makes every call that begins while no other
\* call is running, and caller 2 begins a call only during one of caller
\* 1's.  A behaviour in which calls overlap has at most MaxCalls calls; a
\* behaviour of calls made one after the other has any number.
Callers == {1, 2}
Undef == -1
Main == 0

\* ------------------------------------------------------------ input sets
\* finslipa_start's maxIterations: the caps a caller means to give.  An
\* absent argument, or 0, stands for the default cap, a positive cap above
\* MaxIterInput.
MaxIterationsArgs == 1..MaxIterInput

\* The argument is declared as any number (server.ts: type "number") and
\* nothing validates it, so a negative cap is accepted as well.
AnyNumberMaxIterationsArgs == {0 - 1} \cup MaxIterationsArgs

\* finslipa_start's mergeThreshold: absent, or a minimum score.
MergeThresholdArgs == {Undef, PERFECT_SCORE}
Strategies == {"highest_score", "minimal_diff", "balanced", "consensus"}

\* What one validation finds: the runner's TestResults (total = passed +
\* failed), the diff's total changed lines and number of touched files, and
\* the diff's text; failureSoft is the sum of the failures' soft scores, in
\* hundredths.
CheckInputs ==
  { [tr |-> [passed |-> 0, failed |-> 0, total |-> 0],
     diff |-> [changes |-> 0, files |-> 0], rawDiff |-> "",
     failureSoft |-> 0],
    [tr |-> [passed |-> 1, failed |-> 1, total |-> 2],
     diff |-> [changes |-> 40, files |-> 1], rawDiff |-> "A",
     failureSoft |-> 0],
    [tr |-> [passed |-> 2, failed |-> 0, total |-> 2],
     diff |-> [changes |-> 0, files |-> 0], rawDiff |-> "",
     failureSoft |-> 0],
    [tr |-> [passed |-> 2, failed |-> 0, total |-> 2],
     diff |-> [changes |-> 40, files |-> 1], rawDiff |-> "A",
     failureSoft |-> 0] }

\* What is parsed from the output of a run that was killed at its timeout:
\* nothing, or the tests that had run by then.
TimedOutInputs == {inp \in CheckInputs : inp.tr.passed < 2}

NoTests == [passed |-> 0, failed |-> 0, total |-> 0]
NoDiff == [changes |-> 0, files |-> 0]

\* ------------------------------------------------------- pure operators
Min(a, b) == IF a < b THEN a ELSE b
Max(a, b) == IF a > b THEN a ELSE b

\* Math.round for a non-negative rational num/den.
RoundDiv(num, den) == (2 * num + den) \div (2 * den)

\* DiffAnalyzer.calculateComplexity, with the thresholds lowComplexity 50
\* and mediumComplexity 150.
LOW_COMPLEXITY == 50
MEDIUM_COMPLEXITY == 150

calculateComplexity(totalChanges, fileCount) ==
  LET spreadPenalty == IF fileCount > 5 THEN (fileCount - 5) * 10 ELSE 0
      score == totalChanges + spreadPenalty
  IN IF score <= LOW_COMPLEXITY THEN "low"
     ELSE IF score <= MEDIUM_COMPLEXITY THEN "medium"
     ELSE "high"

\* DiffAnalyzer.calculateComplexityScore:
\*   round(min(totalChanges, 500) * 0.15 + min(fileCount * 5, 50))
calculateComplexityScore(totalChanges, fileCount) ==
  RoundDiv(Min(totalChanges, MAX_CHANGE_SCORE) * 15
             + Min(fileCount * 5, MAX_SPREAD_PENALTY) * 100, 100)

\* ---- JavaScript numbers.  A positive double is kept as its 53 significand
\* bits, most significant first, and the exponent of the first bit: the
\* value is bits[1].bits[2]...bits[53] (binary) * 2^exp.  Zero has no bits.
DoubleZero == [bits |-> << >>, exp |-> 0]

RECURSIVE TwoTo(_)
TwoTo(n) == IF n = 0 THEN 1 ELSE 2 * TwoTo(n - 1)

RECURSIVE TwoToMod(_, _)
\* 2^n modulo den, by squaring.
TwoToMod(n, den) ==
  IF n = 0 THEN 1 % den
  ELSE LET h == TwoToMod(n \div 2, den)
       IN (h * h * (IF n % 2 = 1 THEN 2 ELSE 1)) % den

\* Long division of rem/den (rem < den): the remainder before bit k + 1.
remainderAt(rem, den, k) == (rem * TwoToMod(k, den)) % den

\* The next n bits of rem/den, and the remainder left.
quotientBits(rem, den, n) ==
  [bits |-> [k \in 1..n |-> (2 * remainderAt(rem, den, k - 1)) \div den],
   rem |-> remainderAt(rem, den, n)]

\* bits + 1, for bits that are not all ones.
incrementBits(bits) ==
  LET z == CHOOSE j \in 1..Len(bits) :
             bits[j] = 0 /\ \A i \in (j + 1)..Len(bits) : bits[i] = 1
  IN [j \in 1..Len(bits) |->
        IF j < z THEN bits[j] ELSE IF j = z THEN 1 ELSE 0]

\* Round to nearest, ties to even: the 53 bits kept, the first bit dropped
\* and whether any later bit dropped is set.
roundToDouble(bits, exp, roundBit, sticky) ==
  IF roundBit = 1 /\ (sticky \/ bits[53] = 1)
    THEN IF \A k \in 1..53 : bits[k] = 1
           THEN [bits |-> <<1>> \o [k \in 1..52 |-> 0], exp |-> exp + 1]
           ELSE [bits |-> incrementBits(bits), exp |-> exp]
    ELSE [bits |-> bits, exp |-> exp]

RECURSIVE shiftsToReach(_, _)
\* The least s with num * 2^s >= den.
shiftsToReach(num, den) ==
  IF num >= den THEN 0 ELSE 1 + shiftsToReach(2 * num, den)

\* The double num / den for integers 0 <= num <= den, den > 0.
doubleDivide(num, den) ==
  IF num = 0 THEN DoubleZero
  ELSE LET s == shiftsToReach(num, den)
           q == quotientBits(num * TwoTo(s) - den, den, 53)
       IN roundToDouble(<<1>> \o SubSeq(q.bits, 1, 52), 0 - s,
                        q.bits[53], q.rem # 0)

RECURSIVE valueOfBits(_)
valueOfBits(bits) ==
  IF bits = << >> THEN 0
  ELSE 2 * valueOfBits(SubSeq(bits, 1, Len(bits) - 1)) + bits[Len(bits)]

\* Multiplication is done on limbs of LimbBits bits.
LimbBits == 10
Limb == TwoTo(LimbBits)

\* The limbs of a bit sequence whose length is a multiple of LimbBits.
limbsOf(bits) ==
  [i \in 1..(Len(bits) \div LimbBits) |->
     valueOfBits(SubSeq(bits, LimbBits * (i - 1) + 1, LimbBits * i))]

\* The bits of a sequence of limbs.
bitsOfLimbs(limbs) ==
  [j \in 1..(LimbBits * Len(limbs)) |->
     (limbs[((j - 1) \div LimbBits) + 1]
        \div TwoTo(LimbBits - 1 - ((j - 1) % LimbBits))) % 2]

RECURSIVE timesLimbs(_, _, _, _)
\* Schoolbook multiplication by k from limb i downwards, carry coming in:
\* the carry out, then the limbs 1..i of the product.
timesLimbs(limbs, k, i, carry) ==
  IF i = 0 \/ carry < 0 THEN <<carry>>
  ELSE LET v == limbs[i] * k + carry
       IN timesLimbs(limbs, k, i - 1, v \div Limb) \o <<v % Limb>>

\* bits * k in binary without leading zeros, for 0 < k < Limb and bits
\* that begin with 1.
timesBits(bits, k) ==
  LET pad == (LimbBits - (Len(bits) % LimbBits)) % LimbBits
      limbs == limbsOf([j \in 1..pad |-> 0] \o bits)
      product == bitsOfLimbs(timesLimbs(limbs, k, Len(limbs), 0))
      first == CHOOSE j \in 1..Len(product) :
                 product[j] = 1 /\ \A i \in 1..(j - 1) : product[i] = 0
  IN SubSeq(product, first, Len(product))

\* The double d * k for a small positive integer k.
doubleTimes(d, k) ==
  IF d.bits = << >> THEN DoubleZero
  ELSE LET product == timesBits(d.bits, k)
           n == Len(product)
       IN roundToDouble(SubSeq(product, 1, 53), d.exp + (n - 53),
                        IF n > 53 THEN product[54] ELSE 0,
                        \E j \in 55..n : product[j] = 1)

\* Math.round of a double x >= 0 below 2^52: floor(x + 0.5), the integer
\* part plus the first bit after the binary point.
MathRound(x) ==
  IF x.bits = << >> \/ x.exp < 0 - 1 THEN 0
  ELSE IF x.exp = 0 - 1 THEN 1
  ELSE valueOfBits(SubSeq(x.bits, 1, x.exp + 1)) + x.bits[x.exp + 2]

\* ScoringEngine.calculatePassRate: (passed / total) * 100, 0 without tests.
calculatePassRate(tr) ==
  IF tr.total = 0 THEN DoubleZero
  ELSE doubleTimes(doubleDivide(tr.passed, tr.total), 100)

\* ScoringEngine.calculateScore with the default weights
\* (testPass 1.0, complexityPenalty 0.1).
complexityDeduction(diff) ==
  RoundDiv(calculateComplexityScore(diff.changes, diff.files), 10)

calculateScore(tr, diff) ==
  LET ded == complexityDeduction(diff)
      \* Math.round(testPassRate - ded): ded is an integer, so the
      \* difference is exact where it is not negative, and a negative one
      \* is clamped to 0
      raw == MathRound(calculatePassRate(tr)) - ded
  IN Max(0, Min(100, raw))

\* The scores of the outcomes a validation can find, computed once.
scoreOfInput == [inp \in CheckInputs |-> calculateScore(inp.tr, inp.diff)]

\* ---- SoftScorer.  A text is the sequence of its characters; the texts
\* carry no quotes and no surrounding blanks, so trim and parseNumber's
\* quote stripping leave them as they are.  Scores are in hundredths; the
\* texts are chosen so that every division is exact.  NaN is no number and
\* is kept as a value outside every range.
NaN == 0 - 2
Infinity == <<"I", "n", "f", "i", "n", "i", "t", "y">>
FailureTexts ==
  { << >>, <<"5">>, <<"4">>, <<"1", "0">>, <<"-", "5">>, Infinity,
    <<"t", "r", "u", "e">>, <<"a", "b", "c", "d">>, <<"a", "b", "e", "d">>,
    <<"[", "1", ",", "2", "]">>, <<"[", "1", ",", "4", "]">> }

Digits ==
  ("0" :> 0) @@ ("1" :> 1) @@ ("2" :> 2) @@ ("3" :> 3) @@ ("4" :> 4) @@
  ("5" :> 5) @@ ("6" :> 6) @@ ("7" :> 7) @@ ("8" :> 8) @@ ("9" :> 9)

isDigits(s) == s # << >> /\ \A k \in 1..Len(s) : s[k] \in DOMAIN Digits

RECURSIVE digitsValue(_)
digitsValue(s) ==
  IF s = << >> THEN 0
  ELSE 10 * digitsValue(SubSeq(s, 1, Len(s) - 1)) + Digits[s[Len(s)]]

\* A number is finite (inf = 0, val its value) or an infinity (inf its
\* sign); null is what parseNumber returns for a text that is no number.
Finite(v) == [inf |-> 0, val |-> v]
null == [inf |-> 2, val |-> 0]

\* Number(text) for the texts above: the empty text is 0.
Number(s) ==
  IF s = << >> THEN Finite(0)
  ELSE IF s = Infinity THEN [inf |-> 1, val |-> 0]
  ELSE IF s = <<"-">> \o Infinity THEN [inf |-> 0 - 1, val |-> 0]
  ELSE IF isDigits(s) THEN Finite(digitsValue(s))
  ELSE IF s[1] = "-" /\ isDigits(Tail(s)) THEN Finite(0 - digitsValue(Tail(s)))
  ELSE null

\* SoftScorer.parseNumber
parseNumber(s) ==
  IF s = <<"t", "r", "u", "e">> THEN Finite(1)
  ELSE IF s = <<"f", "a", "l", "s", "e">> THEN Finite(0)
  ELSE Number(s)

Abs(v) == IF v < 0 THEN 0 - v ELSE v

\* Math.max(0, 1 - Math.abs(e - a) / Math.max(|e|, |a|, 1)) for two
\* numbers that are not equal: with an infinity among them the quotient
\* is Infinity / Infinity, which is NaN, and Math.max(0, NaN) is NaN.
proximity(e, a) ==
  IF e.inf # 0 \/ a.inf # 0 THEN NaN
  ELSE LET maxVal == Max(Max(Abs(e.val), Abs(a.val)), 1)
       IN Max(0, 100 - (100 * Abs(e.val - a.val)) \div maxVal)

\* SoftScorer.compareNumeric; Undef when one of the texts is no number.
compareNumeric(expected, actual) ==
  LET e == parseNumber(expected)
      a == parseNumber(actual)
  IN IF e = null \/ a = null THEN Undef
     ELSE IF e = a THEN 100
     ELSE proximity(e, a)

RECURSIVE splitAtCommas(_)
splitAtCommas(s) ==
  IF \A k \in 1..Len(s) : s[k] # ","
    THEN <<s>>
    ELSE LET k == CHOOSE j \in 1..Len(s) :
                    s[j] = "," /\ \A i \in 1..(j - 1) : s[i] # ","
         IN <<SubSeq(s, 1, k - 1)>> \o splitAtCommas(SubSeq(s, k + 1, Len(s)))

\* JSON.parse for the texts above: an array of integers is parsed, any
\* other text that reaches compareJson throws.
isJsonArray(s) ==
  /\ Len(s) >= 2
  /\ s[1] = "[" /\ s[Len(s)] = "]"
  /\ \/ Len(s) = 2
     \/ \A item \in {splitAtCommas(SubSeq(s, 2, Len(s) - 1))[k] :
                       k \in 1..Len(splitAtCommas(SubSeq(s, 2, Len(s) - 1)))} :
          isDigits(item)

JSONparse(s) ==
  IF Len(s) = 2 THEN << >>
  ELSE LET items == splitAtCommas(SubSeq(s, 2, Len(s) - 1))
       IN [k \in 1..Len(items) |-> Finite(digitsValue(items[k]))]

RECURSIVE sumOf(_)
sumOf(scores) ==
  IF scores = << >> THEN 0
  ELSE IF NaN \in {scores[k] : k \in 1..Len(scores)} THEN NaN
  ELSE scores[1] + sumOf(Tail(scores))

\* SoftScorer.compareArrays, for arrays of numbers (compareObjects of two
\* numbers is 1.0 when they are equal and their proximity otherwise).
compareArrays(expected, actual) ==
  IF Len(expected) = 0 /\ Len(actual) = 0 THEN 100
  ELSE LET maxLength == Max(Len(expected), Len(actual))
           both == Min(Len(expected), Len(actual))
           total == sumOf([i \in 1..both |->
                             IF expected[i] = actual[i] THEN 100
                             ELSE proximity(expected[i], actual[i])])
       IN IF total = NaN THEN NaN ELSE total \div maxLength

\* SoftScorer.levenshteinDistance of the first i characters of a and the
\* first j of b.
RECURSIVE levenshteinDistance(_, _, _, _)
levenshteinDistance(a, b, i, j) ==
  IF i = 0 THEN j
  ELSE IF j = 0 THEN i
  ELSE Min(Min(levenshteinDistance(a, b, i, j - 1) + 1,
               levenshteinDistance(a, b, i - 1, j) + 1),
           levenshteinDistance(a, b, i - 1, j - 1)
             + (IF a[i] = b[j] THEN 0 ELSE 1))

\* SoftScorer.compareStrings
compareStrings(expected, actual) ==
  IF expected = actual THEN 100
  ELSE IF Len(expected) = 0 \/ Len(actual) = 0 THEN 0
  ELSE LET distance == levenshteinDistance(expected, actual,
                                           Len(expected), Len(actual))
           maxLength == Max(Len(expected), Len(actual))
       IN Max(0, 100 - (100 * distance) \div maxLength)

\* A failure's expected or actual that the output did not give.
undefined == <<"undefined">>

\* SoftScorer.calculateFailureSoftScore
calculateFailureSoftScore(failure) ==
  IF failure.expected = undefined \/ failure.actual = undefined THEN 0
  ELSE IF failure.expected = << >> \/ failure.actual = << >> THEN 0
  ELSE IF failure.expected = failure.actual THEN 100
  ELSE IF compareNumeric(failure.expected, failure.actual) # Undef
    THEN compareNumeric(failure.expected, failure.actual)
  ELSE IF isJsonArray(failure.expected) /\ isJsonArray(failure.actual)
    THEN compareArrays(JSONparse(failure.expected), JSONparse(failure.actual))
  ELSE compareStrings(failure.expected, failure.actual)

\* SoftScorer.calculateTestResultsSoftScore, in hundredths:
\* (passed + the failures' soft scores) / total, 0 without tests, and NaN
\* when the sum is NaN.  The inputs of the session's handlers are chosen so
\* that the division is exact; elsewhere the hundredths are rounded down.
calculateTestResultsSoftScore(tr, failureSoft) ==
  IF tr.total = 0 THEN 0
  ELSE IF failureSoft = NaN THEN NaN
  ELSE (100 * tr.passed + failureSoft) \div tr.total

\* persistIterationPhase: allTestsPassing
allTestsPassingScoreVariant(tr, score) == score = PERFECT_SCORE
allTestsPassing(tr, score) == tr.failed = 0 /\ tr.total > 0

\* A cap guard that lets the iteration after the last one through.
capReachedBeyond(session) == session.currentIteration > session.maxIterations

\* finslipaCheck: the iteration-cap guard
capReached(session) == session.currentIteration >= session.maxIterations

\* ------------------------------------------------------------ documents
NoDoc ==
  [exists |-> FALSE, status |-> "none", maxIterations |-> 0,
   currentIteration |-> 0, iterations |-> << >>,
   bestIteration |-> Undef, bestScore |-> Undef,
   selectedIteration |-> Undef, mergeThreshold |-> Undef]

\* SessionManager.createSession
createSession(maxIterations, mergeThreshold) ==
  [exists |-> TRUE, status |-> "initializing",
   maxIterations |-> maxIterations,
   currentIteration |-> 0, iterations |-> << >>,
   bestIteration |-> Undef, bestScore |-> Undef,
   selectedIteration |-> Undef, mergeThreshold |-> mergeThreshold]

NoLock == [held |-> FALSE, pid |-> 0, age |-> 0]

\* A handler's local variables.  Each is held only while the handler still
\* reads it: tmp is the document between a loadSession and the persistSession
\* that follows it, todo the worktree iterations cancel has still to visit.
LocInit ==
  [op |-> "none", tmp |-> NoDoc, iteration |-> 0,
   elapsed |-> 0, markerAge |-> 0, tr |-> NoTests, diffSize |-> 0,
   score |-> 0, wt |-> FALSE, todo |-> << >>, target |-> 0,
   named |-> FALSE, voted |-> Undef, setCompleted |-> FALSE, ranTests |-> FALSE,
   selected |-> Undef, strategy |-> "none", rawDiff |-> "", softScore |-> 0,
   voteCount |-> 0, ranking |-> << >>, timedOut |-> FALSE,
   arg |-> "none", cleanedCount |-> 0, files |-> 0, complexity |-> "none",
   complexityScore |-> 0, failures |-> << >>, failureScores |-> << >>,
   statusAtCall |-> "none", steps |-> << >>, errors |-> FALSE,
   result |-> "none"]

\* What is left of the frame once the handler has returned: the response,
\* which names the iteration a merge was asked for.
Returned(l, code) ==
  [LocInit EXCEPT !.op = l.op, !.result = code,
                  !.target = l.target, !.named = l.named,
                  !.statusAtCall = l.statusAtCall]

VARIABLES
  sessionDir, \* the session's directory: not yet created, present, removed
  lock,       \* the session's .lock file
  store,      \* the session's state.json
  worktrees,  \* iteration -> base branch, for each existing worktree
  lastVote,   \* winner returned by the latest successful vote
  calls,      \* number of calls begun so far, counted up to MaxCalls
  overlapped, \* some call began while another was running
  pc,         \* per caller: position in its handler
  loc         \* per caller: the handler's local variables

vars ==
  <<sessionDir, lock, store, worktrees, lastVote, calls, overlapped, pc, loc>>

Init ==
  /\ sessionDir = "none"
  /\ lock = NoLock
  /\ store = NoDoc
  /\ worktrees = << >>
  /\ lastVote = Undef
  /\ calls = 0
  /\ overlapped = FALSE
  /\ pc = [c \in Callers |-> "idle"]
  /\ loc = [c \in Callers |-> LocInit]

\* ---------------------------------------------------------------- helpers
Goto(c, label) == pc' = [pc EXCEPT ![c] = label]

\* Caller c begins a call.
Call(c) ==
  /\ pc[c] = "idle"
  /\ c = 2 => pc[1] \notin {"idle", "done"}
  /\ calls < MaxCalls \/ (c = 1 /\ ~overlapped)
  /\ calls' = Min(calls + 1, MaxCalls)
  /\ overlapped' = (overlapped \/ c = 2)
SetLoc(c, r) == loc' = [loc EXCEPT ![c] = r]

\* A handler returns `code` to its caller.
Finish(c, code) ==
  /\ pc' = [pc EXCEPT ![c] = "done"]
  /\ loc' = [loc EXCEPT ![c] = Returned(loc[c], code)]

\* Time is kept as the differences the code computes from Date.now():
\* the marker's age (Date.now() - existing.timestamp), withLock's elapsed
\* time (Date.now() - startTime) and the age of the timestamp acquireLock
\* has prepared for its marker.  The code compares an age with
\* LOCK_STALE_THRESHOLD and the elapsed time with LOCK_TIMEOUT only, so each
\* difference is kept up to the constant it is compared with.
Older(t, limit) == Min(t + LOCK_TIMEOUT, limit)

\* The clock advances by the lock timeout.
Tick ==
  /\ lock' = IF lock.held
               THEN [lock EXCEPT !.age = Older(@, LOCK_STALE_THRESHOLD)]
               ELSE lock
  /\ loc' = [c \in Callers |->
              IF pc[c] = "wl_loop"
                THEN [loc[c] EXCEPT !.elapsed = Older(@, LOCK_TIMEOUT)]
              ELSE IF pc[c] = "wl_write"
                THEN [loc[c] EXCEPT !.markerAge = Older(@, LOCK_STALE_THRESHOLD)]
                ELSE loc[c]]
  /\ UNCHANGED sessionDir
  /\ UNCHANGED <<store, worktrees, lastVote, pc, calls, overlapped>>

\* The caller has read the response; its handler frame is gone.
Return(c) ==
  /\ pc[c] = "done"
  /\ pc' = [pc EXCEPT ![c] = "idle"]
  /\ loc' = [loc EXCEPT ![c] = LocInit]
  /\ UNCHANGED <<sessionDir, lock, store, worktrees, lastVote, calls,
               overlapped>>


\* ------------------------------------------------- SessionManager.withLock
\* The positions of finslipaCheck inside the operation withLock encloses.
CheckOperationPcs ==
  {"chk_load", "chk_fail_load", "chk_fail_persist", "chk_iter_load",
   "chk_iter_persist", "chk_setup", "chk_create", "chk_test",
   "chk_add_load", "chk_add_persist", "chk_best_load", "chk_best_persist",
   "chk_done_load", "chk_done_persist"}

\* A staleness test that still blocks at the threshold: age <= threshold.
lockBlocksAtThreshold(existing) ==
  existing.held /\ existing.age <= LOCK_STALE_THRESHOLD

\* acquireLock: an existing marker younger than the threshold blocks.
lockBlocks(existing) ==
  existing.held /\ existing.age < LOCK_STALE_THRESHOLD

\* A retry loop without the overall timeout: while (true).
withLock_TurnUnbounded(c, l) ==
  IF lockBlocks(lock)
    THEN /\ Goto(c, "wl_loop")
         /\ SetLoc(c, l)
    ELSE /\ Goto(c, "wl_write")
         /\ SetLoc(c, [l EXCEPT !.elapsed = 0, !.markerAge = 0])

\* One turn of withLock's retry loop by a caller whose locals are l: the
\* timeout test, then acquireLock's read of the existing marker; when the
\* marker blocks, the retry delay of 100 ms follows.
withLock_Turn(c, l) ==
  IF l.elapsed < LOCK_TIMEOUT
    THEN IF lockBlocks(lock)
           THEN /\ Goto(c, "wl_loop")
                /\ SetLoc(c, l)
           ELSE /\ Goto(c, "wl_write")
                /\ SetLoc(c, [l EXCEPT !.elapsed = 0, !.markerAge = 0])
    ELSE \* "Timeout waiting for lock", caught by finslipaCheck
         /\ Goto(c, "done")
         /\ SetLoc(c, Returned(l, "CHECK_FAILED"))

\* finslipaCheck is called: withLock records its start time and makes its
\* first attempt.
finslipaCheck_Call(c) ==
  /\ Call(c)
  /\ withLock_Turn(c, [LocInit EXCEPT !.op = "check", !.elapsed = 0])
  /\ UNCHANGED <<sessionDir, lock, store, worktrees, lastVote>>

\* A later attempt, after the retry delay.
withLock_Retry(c) ==
  /\ pc[c] = "wl_loop"
  /\ withLock_Turn(c, loc[c])
  /\ UNCHANGED <<sessionDir, lock, store, worktrees, lastVote, calls,
               overlapped>>

\* acquireLock: mkdir + Bun.write of the marker.
acquireLock_Write(c) ==
  /\ pc[c] = "wl_write"
  /\ lock' = [held |-> TRUE, pid |-> c, age |-> loc[c].markerAge]
  /\ Goto(c, "chk_load")
  /\ SetLoc(c, [loc[c] EXCEPT !.markerAge = 0])
  /\ sessionDir' = "present"
  /\ UNCHANGED <<store, worktrees, lastVote, calls, overlapped>>

\* A release placed after the enclosed operation's return instead of in a
\* finally: an operation that failed keeps the marker.
releaseLockAfterReturn(c) ==
  /\ pc[c] = "chk_release"
  /\ lock' = IF loc[c].result = "OK" THEN NoLock ELSE lock
  /\ Finish(c, loc[c].result)
  /\ UNCHANGED sessionDir
  /\ UNCHANGED <<store, worktrees, lastVote, calls, overlapped>>

\* releaseLock in withLock's finally: rm of the marker, whoever wrote it;
\* then the handler returns the response it has prepared.
releaseLock(c) ==
  /\ pc[c] = "chk_release"
  /\ lock' = NoLock
  /\ Finish(c, loc[c].result)
  /\ UNCHANGED sessionDir
  /\ UNCHANGED <<store, worktrees, lastVote, calls, overlapped>>

\* ------------------------------------------- SessionManager read and write
\* loadSession into the handler's scratch copy; a missing document makes
\* the caller throw: a locked handler goes on to its release with failCode
\* prepared, an unlocked one returns failCode.
LoadOrThrow(c, from, to, failPc, failCode) ==
  /\ pc[c] = from
  /\ IF store.exists
       THEN /\ SetLoc(c, [loc[c] EXCEPT !.tmp = store])
            /\ Goto(c, to)
       ELSE IF failPc = "done"
              THEN Finish(c, failCode)
              ELSE /\ SetLoc(c, [loc[c] EXCEPT !.result = failCode])
                   /\ Goto(c, failPc)
  /\ UNCHANGED <<sessionDir, lock, store, worktrees, lastVote, calls,
               overlapped>>

\* SessionManager.updateSessionStatus, second half: persistSession of the
\* loaded copy with the new status.
updateSessionStatus(session, status) == [session EXCEPT !.status = status]

\* ------------------------------------------------------------ finslipaCheck
finslipaCheck_Load(c) ==
  /\ pc[c] = "chk_load"
  /\ IF ~store.exists
       THEN /\ SetLoc(c, [loc[c] EXCEPT !.result = "SESSION_NOT_FOUND"])
            /\ Goto(c, "chk_release")
       ELSE /\ SetLoc(c, [loc[c] EXCEPT
                            !.iteration = store.currentIteration + 1])
            /\ IF capReached(store)
                 THEN Goto(c, "chk_fail_load")
                 ELSE Goto(c, "chk_iter_load")
  /\ UNCHANGED <<sessionDir, lock, store, worktrees, lastVote, calls,
               overlapped>>

finslipaCheck_FailLoad(c) ==
  LoadOrThrow(c, "chk_fail_load", "chk_fail_persist", "chk_release",
              "CHECK_FAILED")

finslipaCheck_FailPersist(c) ==
  /\ pc[c] = "chk_fail_persist"
  /\ store' = updateSessionStatus(loc[c].tmp, "failed")
  /\ SetLoc(c, [loc[c] EXCEPT !.tmp = NoDoc,
                              !.result = "MAX_ITERATIONS_REACHED"])
  /\ Goto(c, "chk_release")
  /\ sessionDir' = "present"
  /\ UNCHANGED <<lock, worktrees, lastVote, calls, overlapped>>

finslipaCheck_IterLoad(c) ==
  LoadOrThrow(c, "chk_iter_load", "chk_iter_persist", "chk_release",
              "CHECK_FAILED")

finslipaCheck_IterPersist(c) ==
  /\ pc[c] = "chk_iter_persist"
  /\ store' = updateSessionStatus(loc[c].tmp, "iterating")
  /\ SetLoc(c, [loc[c] EXCEPT !.tmp = NoDoc])
  /\ Goto(c, "chk_setup")
  /\ sessionDir' = "present"
  /\ UNCHANGED <<lock, worktrees, lastVote, calls, overlapped>>

\* setupWorktree: reuse the iteration's worktree if its directory exists.
\* A setup that skips the existence test and always creates.
setupWorktree_AlwaysCreate(c) ==
  /\ pc[c] = "chk_setup"
  /\ Goto(c, "chk_create")
  /\ UNCHANGED <<sessionDir, lock, store, worktrees, lastVote, loc, calls,
               overlapped>>

setupWorktree_Exists(c) ==
  /\ pc[c] = "chk_setup"
  /\ IF loc[c].iteration \in DOMAIN worktrees
       THEN /\ SetLoc(c, [loc[c] EXCEPT !.wt = TRUE])
            /\ Goto(c, "chk_test")
       ELSE /\ UNCHANGED loc
            /\ Goto(c, "chk_create")
  /\ UNCHANGED <<sessionDir, lock, store, worktrees, lastVote, calls,
               overlapped>>

\* setupWorktree's base branch for an iteration: createWorktree is called
\* with the branch name only, so its default base (main) applies.
setupWorktreeBase(iteration) == Main

\* A setup that falls back to the project directory when createWorktree
\* throws.
setupWorktree_CreateOrFallBack(c) ==
  /\ pc[c] = "chk_create"
  /\ \/ /\ loc[c].iteration \notin DOMAIN worktrees
        /\ worktrees' = (loc[c].iteration :> Main) @@ worktrees
        /\ SetLoc(c, [loc[c] EXCEPT !.wt = TRUE])
     \/ /\ UNCHANGED worktrees
        /\ UNCHANGED loc
  /\ Goto(c, "chk_test")
  /\ UNCHANGED <<sessionDir, lock, store, lastVote, calls, overlapped>>

\* WorktreeManager.createWorktree: `git worktree add -B branch path base`
\* succeeds or fails; it fails when the path is already a worktree.
createWorktree(n, base) ==
  /\ n \notin DOMAIN worktrees
  /\ worktrees' = (n :> base) @@ worktrees

setupWorktree_Create(c) ==
  /\ pc[c] = "chk_create"
  /\ \/ /\ createWorktree(loc[c].iteration, setupWorktreeBase(loc[c].iteration))
        /\ SetLoc(c, [loc[c] EXCEPT !.wt = TRUE])
        /\ Goto(c, "chk_test")
     \/ /\ UNCHANGED worktrees
        /\ SetLoc(c, [loc[c] EXCEPT !.result = "WORKTREE_CREATION_FAILED"])
        /\ Goto(c, "chk_release")
  /\ UNCHANGED <<sessionDir, lock, store, lastVote, calls, overlapped>>

\* A test phase without the test for total === 0: an empty run is scored.
runTestPhaseScoringEmptyRun(c) ==
  /\ pc[c] = "chk_test"
  /\ \/ \E inp \in CheckInputs :
          /\ SetLoc(c, [loc[c] EXCEPT !.tr = inp.tr,
                                      !.diffSize = inp.diff.changes,
                                      !.rawDiff = inp.rawDiff,
                                      !.softScore =
                                        calculateTestResultsSoftScore(
                                          inp.tr, inp.failureSoft),
                                      !.ranTests = TRUE,
                                      !.score = scoreOfInput[inp]])
          /\ Goto(c, "chk_add_load")
     \/ /\ SetLoc(c, [loc[c] EXCEPT !.result = "TEST_RUN_FAILED"])
        /\ Goto(c, "chk_release")
  /\ UNCHANGED <<sessionDir, lock, store, worktrees, lastVote, calls,
               overlapped>>

\* runTestPhase and runAnalysisPhase: the runner's outcome, the diff and
\* the score; the runner may also throw.  BunTestRunner.run resolves on the
\* subprocess's close with what parseOutput finds in the output so far,
\* also when spawn's timeout has killed the subprocess: inp is then the
\* outcome parsed from the partial output, and timedOut notes the kill
\* until the outcome's record is written.
runTestPhase(c) ==
  /\ pc[c] = "chk_test"
  /\ \/ \E inp \in CheckInputs :
        \E timedOut \in IF inp \in TimedOutInputs THEN BOOLEAN ELSE {FALSE} :
          LET tr == inp.tr
              d == inp.diff
          IN
          IF tr.total = 0
            THEN /\ SetLoc(c, [loc[c] EXCEPT !.ranTests = TRUE,
                                             !.timedOut = timedOut,
                                             !.result = "NO_TESTS_DETECTED"])
                 /\ Goto(c, "chk_release")
            ELSE /\ SetLoc(c, [loc[c] EXCEPT !.tr = tr,
                                             !.timedOut = timedOut,
                                             !.diffSize = d.changes,
                                             !.rawDiff = inp.rawDiff,
                                             !.softScore =
                                               calculateTestResultsSoftScore(
                                                 tr, inp.failureSoft),
                                             !.ranTests = TRUE,
                                             !.score = scoreOfInput[inp]])
                 /\ Goto(c, "chk_add_load")
     \/ /\ SetLoc(c, [loc[c] EXCEPT !.result = "TEST_RUN_FAILED"])
        /\ Goto(c, "chk_release")
  /\ UNCHANGED <<sessionDir, lock, store, worktrees, lastVote, calls,
               overlapped>>

\* runAnalysisPhase: the code of the solution snapshot, rawDiff ||
\* "(no changes)".
solutionCode(rawDiff) == IF rawDiff = "" THEN "(no changes)" ELSE rawDiff

\* The IterationResult persistIterationPhase hands to addIteration.
IterationResult(l) ==
  [iteration |-> l.iteration, status |-> "completed",
   passed |-> l.tr.passed, failed |-> l.tr.failed, total |-> l.tr.total,
   score |-> l.score, diffSize |-> l.diffSize, worktreePath |-> l.wt,
   code |-> solutionCode(l.rawDiff), softScore |-> l.softScore]

addIteration_Load(c) ==
  LoadOrThrow(c, "chk_add_load", "chk_add_persist", "chk_release",
              "TEST_RUN_FAILED")

\* SessionManager.addIteration: push, set currentIteration, persist.
addIteration(session, iteration) ==
  [session EXCEPT !.iterations = Append(@, iteration),
                  !.currentIteration = iteration.iteration]

addIteration_Persist(c) ==
  /\ pc[c] = "chk_add_persist"
  /\ store' = addIteration(loc[c].tmp, IterationResult(loc[c]))
  /\ SetLoc(c, [loc[c] EXCEPT !.tmp = NoDoc, !.timedOut = FALSE])
  /\ Goto(c, "chk_best_load")
  /\ sessionDir' = "present"
  /\ UNCHANGED <<lock, worktrees, lastVote, calls, overlapped>>

\* persistIterationPhase after updateBestResult: updateSessionStatus
\* (completed) follows only when all tests pass; otherwise the handler has
\* its success response (updateDirectivePhase only reads the session).
AfterBest(c, l) ==
  IF allTestsPassing(l.tr, l.score)
    THEN /\ Goto(c, "chk_done_load")
         /\ SetLoc(c, l)
    ELSE /\ Goto(c, "chk_release")
         /\ SetLoc(c, [l EXCEPT !.result = "OK"])

\* A comparison that also replaces the best result on an equal score.
improvesBestOrEquals(session, score) ==
  session.bestScore = Undef \/ score >= session.bestScore

\* SessionManager.updateBestResult: load, then persist only on improvement.
improvesBest(session, score) ==
  session.bestScore = Undef \/ score > session.bestScore

updateBestResult(session, iteration, score) ==
  [session EXCEPT !.bestIteration = iteration, !.bestScore = score]

updateBestResult_Load(c) ==
  /\ pc[c] = "chk_best_load"
  /\ IF ~store.exists
       THEN /\ SetLoc(c, [loc[c] EXCEPT !.result = "TEST_RUN_FAILED"])
            /\ Goto(c, "chk_release")
       ELSE IF improvesBest(store, loc[c].score)
              THEN /\ SetLoc(c, [loc[c] EXCEPT !.tmp = store])
                   /\ Goto(c, "chk_best_persist")
              ELSE AfterBest(c, loc[c])
  /\ UNCHANGED <<sessionDir, lock, store, worktrees, lastVote, calls,
               overlapped>>

updateBestResult_Persist(c) ==
  /\ pc[c] = "chk_best_persist"
  /\ store' = updateBestResult(loc[c].tmp, loc[c].iteration, loc[c].score)
  /\ AfterBest(c, [loc[c] EXCEPT !.tmp = NoDoc])
  /\ sessionDir' = "present"
  /\ UNCHANGED <<lock, worktrees, lastVote, calls, overlapped>>

persistIterationPhase_DoneLoad(c) ==
  LoadOrThrow(c, "chk_done_load", "chk_done_persist", "chk_release",
              "TEST_RUN_FAILED")

persistIterationPhase_DonePersist(c) ==
  /\ pc[c] = "chk_done_persist"
  /\ store' = updateSessionStatus(loc[c].tmp, "completed")
  /\ SetLoc(c, [loc[c] EXCEPT !.tmp = NoDoc, !.setCompleted = TRUE,
                              !.result = "OK"])
  /\ Goto(c, "chk_release")
  /\ sessionDir' = "present"
  /\ UNCHANGED <<lock, worktrees, lastVote, calls, overlapped>>

finslipaCheck(c) ==
  \/ finslipaCheck_Call(c)
  \/ withLock_Retry(c)
  \/ acquireLock_Write(c)
  \/ finslipaCheck_Load(c)
  \/ finslipaCheck_FailLoad(c)
  \/ finslipaCheck_FailPersist(c)
  \/ finslipaCheck_IterLoad(c)
  \/ finslipaCheck_IterPersist(c)
  \/ setupWorktree_Exists(c)
  \/ setupWorktree_Create(c)
  \/ runTestPhase(c)
  \/ addIteration_Load(c)
  \/ addIteration_Persist(c)
  \/ updateBestResult_Load(c)
  \/ updateBestResult_Persist(c)
  \/ persistIterationPhase_DoneLoad(c)
  \/ persistIterationPhase_DonePersist(c)
  \/ releaseLock(c)


\* ------------------------------------------------------------ finslipaStart
\* args.maxIterations || 5
effectiveMaxIterations(arg) == IF arg = 0 THEN DEFAULT_MAX_ITERATIONS ELSE arg

\* SessionManager.getActiveSession, for the tracked session
isActive(session) ==
  session.exists /\ session.status \in {"initializing", "iterating"}

\* The results of the responses with success: true; every other result is
\* the error code of a response with success: false.
successResults == {"OK", "Found active session"}

\* A finslipaStart that finds the active session and goes on to the
\* worktree of iteration 1 all the same.
finslipaStart_CallFallingThrough(c, maxIterationsArgs) ==
  /\ Call(c)
  /\ \E forceNew \in BOOLEAN, maxIterations \in maxIterationsArgs,
        mergeThreshold \in MergeThresholdArgs :
       IF ~forceNew /\ isActive(store)
         THEN /\ Goto(c, "start_wt")
              /\ SetLoc(c, [LocInit EXCEPT !.op = "start"])
              /\ UNCHANGED <<sessionDir, store>>
         ELSE /\ sessionDir = "none"
              /\ sessionDir' = "present"
              /\ store' = createSession(effectiveMaxIterations(maxIterations),
                                        mergeThreshold)
              /\ Goto(c, "start_wt")
              /\ SetLoc(c, [LocInit EXCEPT !.op = "start"])
  /\ UNCHANGED <<lock, worktrees, lastVote>>

\* getActiveSession, then createSession.  The model tracks the session this
\* call creates; a call made while that session exists and is not reported
\* as active creates a session with another id, which is not tracked.
finslipaStart_Call(c, maxIterationsArgs) ==
  /\ Call(c)
  /\ \E forceNew \in BOOLEAN, maxIterations \in maxIterationsArgs,
        mergeThreshold \in MergeThresholdArgs :
       IF ~forceNew /\ isActive(store)
         THEN /\ Goto(c, "done")
              /\ SetLoc(c, [LocInit EXCEPT !.op = "start",
                                           !.result = "Found active session"])
              /\ UNCHANGED <<sessionDir, store>>
         ELSE \* createSession generates the session's id: once
              /\ sessionDir = "none"
              /\ sessionDir' = "present"
              /\ store' = createSession(effectiveMaxIterations(maxIterations),
                                        mergeThreshold)
              /\ Goto(c, "start_wt")
              /\ SetLoc(c, [LocInit EXCEPT !.op = "start"])
  /\ UNCHANGED <<lock, worktrees, lastVote>>

\* createWorktree for iteration 1, from the default base.
finslipaStart_Worktree(c) ==
  /\ pc[c] = "start_wt"
  /\ \/ /\ createWorktree(1, Main)
        /\ Finish(c, "OK")
     \/ /\ UNCHANGED worktrees
        /\ Finish(c, "WORKTREE_CREATION_FAILED")
  /\ UNCHANGED <<sessionDir, lock, store, lastVote, calls, overlapped>>

finslipaStart(c, maxIterationsArgs) ==
  \/ finslipaStart_Call(c, maxIterationsArgs)
  \/ finslipaStart_Worktree(c)

\* ------------------------------------------------------------- finslipaVote
\* iterations.filter(status === "completed" && score !== undefined)
completedIterations(session) ==
  SelectSeq(session.iterations,
            LAMBDA it : it.status = "completed" /\ it.score # Undef)

passingIterations(completed) ==
  SelectSeq(completed, LAMBDA it : it.score = PERFECT_SCORE)

\* A highest_score whose comparison lets the later of two equal scores win.
highestScoreWinnerLastTie(completed) ==
  LET best[i \in 1..Len(completed)] ==
        IF i = 1 THEN completed[1]
        ELSE IF completed[i].score >= best[i - 1].score
               THEN completed[i] ELSE best[i - 1]
  IN best[Len(completed)]

\* Array.prototype.reduce without an initial value, for each strategy.
highestScoreWinner(completed) ==
  LET best[i \in 1..Len(completed)] ==
        IF i = 1 THEN completed[1]
        ELSE IF completed[i].score > best[i - 1].score
               THEN completed[i] ELSE best[i - 1]
  IN best[Len(completed)]

\* A minimal_diff that takes the smallest diff of all completed records.
selectMinimalDiffWinnerOfAll(completed, passing) ==
  LET best[i \in 1..Len(completed)] ==
        IF i = 1 THEN completed[1]
        ELSE IF completed[i].diffSize < best[i - 1].diffSize
               THEN completed[i] ELSE best[i - 1]
  IN best[Len(completed)]

selectMinimalDiffWinner(completed, passing) ==
  LET candidates == IF Len(passing) > 0 THEN passing ELSE completed
      best[i \in 1..Len(candidates)] ==
        IF i = 1 THEN candidates[1]
        ELSE IF candidates[i].diffSize < best[i - 1].diffSize
               THEN candidates[i] ELSE best[i - 1]
  IN best[Len(candidates)]

\* score * 0.7 - min(diffSize / 500, 1) * 30, scaled by 50 to stay integral
balancedScore(it) == 35 * it.score - 3 * Min(it.diffSize, MAX_CHANGE_SCORE)

selectBalancedWinner(completed) ==
  LET best[i \in 1..Len(completed)] ==
        IF i = 1 THEN completed[1]
        ELSE IF balancedScore(completed[i]) > balancedScore(best[i - 1])
               THEN completed[i] ELSE best[i - 1]
  IN best[Len(completed)]

\* consensus: the records whose solution snapshot has the code of record i.
consensusGroup(completed, i) ==
  {j \in 1..Len(completed) : completed[j].code = completed[i].code}

consensusGroups(completed) ==
  {consensusGroup(completed, i) : i \in 1..Len(completed)}

groupBestScore(completed, g) ==
  CHOOSE s \in {completed[j].score : j \in g} :
    \A j \in g : completed[j].score <= s

firstSeen(g) == CHOOSE i \in g : \A j \in g : i <= j

\* The representative of a group: its member with the best hard score, the
\* earliest iteration among equals (the earlier record among those).
representative(completed, g) ==
  CHOOSE i \in g :
    \A j \in g \ {i} :
      \/ completed[j].score < completed[i].score
      \/ /\ completed[j].score = completed[i].score
         /\ \/ completed[i].iteration < completed[j].iteration
            \/ completed[i].iteration = completed[j].iteration /\ i < j

\* A vote that compares the groups' best scores before their sizes.
winsVoteByScoreFirst(completed, g, h) ==
  \/ groupBestScore(completed, g) > groupBestScore(completed, h)
  \/ /\ groupBestScore(completed, g) = groupBestScore(completed, h)
     /\ \/ Cardinality(g) > Cardinality(h)
        \/ Cardinality(g) = Cardinality(h) /\ firstSeen(g) < firstSeen(h)

\* Group g wins the vote over group h: more votes, then the higher best
\* score, then the group seen first.
winsVote(completed, g, h) ==
  \/ Cardinality(g) > Cardinality(h)
  \/ /\ Cardinality(g) = Cardinality(h)
     /\ \/ groupBestScore(completed, g) > groupBestScore(completed, h)
        \/ /\ groupBestScore(completed, g) = groupBestScore(completed, h)
           /\ firstSeen(g) < firstSeen(h)

\* selectConsensusWinner: the representative of the group that wins the
\* vote, with that group's size and the number of groups.
selectConsensusWinner(completed) ==
  LET groups == consensusGroups(completed)
      top == CHOOSE g \in groups :
               \A h \in groups \ {g} : winsVote(completed, g, h)
  IN [winner |-> completed[representative(completed, top)],
      voteCount |-> Cardinality(top),
      groupCount |-> Cardinality(groups)]

\* The soft score a record is ranked by, in hundredths: that of its test
\* results, its hard score where it has none.
rankingSoftScore(it) == IF it.softScore # Undef THEN it.softScore ELSE it.score

groupBestSoftScore(completed, g) ==
  CHOOSE s \in {rankingSoftScore(completed[j]) : j \in g} :
    \A j \in g : rankingSoftScore(completed[j]) <= s

isPassingGroup(completed, g) == groupBestScore(completed, g) = PERFECT_SCORE

\* A ranking that orders the failing groups by their best hard score.
ranksBeforeByHardScore(completed, g, h) ==
  IF isPassingGroup(completed, g) # isPassingGroup(completed, h)
    THEN isPassingGroup(completed, g)
  ELSE IF isPassingGroup(completed, g)
    THEN \/ Cardinality(g) > Cardinality(h)
         \/ Cardinality(g) = Cardinality(h) /\ firstSeen(g) < firstSeen(h)
  ELSE \/ groupBestScore(completed, g) > groupBestScore(completed, h)
       \/ /\ groupBestScore(completed, g) = groupBestScore(completed, h)
          /\ \/ Cardinality(g) > Cardinality(h)
             \/ Cardinality(g) = Cardinality(h) /\ firstSeen(g) < firstSeen(h)

\* Group g is listed before group h: passing groups before failing ones,
\* passing groups by vote count, failing groups by their best soft score
\* and then by vote count; the group seen first among equals.
ranksBefore(completed, g, h) ==
  IF isPassingGroup(completed, g) # isPassingGroup(completed, h)
    THEN isPassingGroup(completed, g)
  ELSE IF isPassingGroup(completed, g)
    THEN \/ Cardinality(g) > Cardinality(h)
         \/ Cardinality(g) = Cardinality(h) /\ firstSeen(g) < firstSeen(h)
  ELSE \/ groupBestSoftScore(completed, g) > groupBestSoftScore(completed, h)
       \/ /\ groupBestSoftScore(completed, g)
               = groupBestSoftScore(completed, h)
          /\ \/ Cardinality(g) > Cardinality(h)
             \/ Cardinality(g) = Cardinality(h) /\ firstSeen(g) < firstSeen(h)

RECURSIVE orderGroups(_, _)
orderGroups(completed, groups) ==
  IF groups = {} THEN << >>
  ELSE LET g == CHOOSE g \in groups :
                  \A h \in groups \ {g} : ranksBefore(completed, g, h)
       IN <<g>> \o orderGroups(completed, groups \ {g})

\* buildDiversityFirstRanking: one entry per record; the representatives of
\* the groups first, in the groups' order, then the remaining passing
\* records, then the remaining failing ones.
buildDiversityFirstRanking(completed) ==
  LET ordered == orderGroups(completed, consensusGroups(completed))
      reps == [k \in 1..Len(ordered) |->
                 representative(completed, ordered[k])]
      indices == [i \in 1..Len(completed) |-> i]
      isRep(i) == \E k \in 1..Len(reps) : reps[k] = i
      passers == SelectSeq(indices, LAMBDA i :
                   ~isRep(i) /\ completed[i].score = PERFECT_SCORE)
      failures == SelectSeq(indices, LAMBDA i :
                    ~isRep(i) /\ completed[i].score # PERFECT_SCORE)
      order == reps \o passers \o failures
  IN [k \in 1..Len(order) |->
        [iteration |-> completed[order[k]].iteration,
         score |-> completed[order[k]].score,
         isFirstOfGroup |-> k <= Len(reps)]]

selectWinner(strategy, completed) ==
  IF strategy = "highest_score" THEN highestScoreWinner(completed)
  ELSE IF strategy = "minimal_diff"
         THEN selectMinimalDiffWinner(completed, passingIterations(completed))
  ELSE IF strategy = "consensus"
         THEN selectConsensusWinner(completed).winner
         ELSE selectBalancedWinner(completed)

\* A finslipaVote that returns the tracked best before it looks at the
\* records, and without testing that a best is tracked.
finslipaVote_CallBestFirst(c) ==
  /\ Call(c)
  /\ \E strategy \in Strategies, returnBest \in BOOLEAN :
       LET l == [LocInit EXCEPT !.op = "vote"]
           completed == completedIterations(store)
       IN IF ~store.exists
            THEN /\ Goto(c, "done")
                 /\ SetLoc(c, Returned(l, "SESSION_NOT_FOUND"))
          ELSE IF returnBest
            THEN /\ Goto(c, "vote_us_load")
                 /\ SetLoc(c, [l EXCEPT !.strategy = "best_tracked",
                                        !.selected = store.bestIteration])
          ELSE IF Len(store.iterations) = 0
            THEN /\ Goto(c, "done")
                 /\ SetLoc(c, Returned(l, "NO_ITERATIONS"))
          ELSE IF Len(completed) = 0
            THEN /\ Goto(c, "done")
                 /\ SetLoc(c, Returned(l, "NO_SCORED_ITERATIONS"))
          ELSE /\ Goto(c, "vote_us_load")
               /\ SetLoc(c, [l EXCEPT
                     !.strategy = strategy,
                     !.selected = selectWinner(strategy, completed).iteration,
                     !.voteCount =
                       IF strategy = "consensus"
                         THEN selectConsensusWinner(completed).voteCount
                         ELSE 0,
                     !.ranking =
                       IF strategy = "consensus"
                         THEN buildDiversityFirstRanking(completed)
                         ELSE << >>])
  /\ UNCHANGED <<sessionDir, lock, store, worktrees, lastVote>>

\* loadSession and the selection; no lock is taken.
finslipaVote_Call(c) ==
  /\ Call(c)
  /\ \E strategy \in Strategies, returnBest \in BOOLEAN :
       LET l == [LocInit EXCEPT !.op = "vote"]
           completed == completedIterations(store)
       IN IF ~store.exists
            THEN /\ Goto(c, "done")
                 /\ SetLoc(c, Returned(l, "SESSION_NOT_FOUND"))
          ELSE IF Len(store.iterations) = 0
            THEN /\ Goto(c, "done")
                 /\ SetLoc(c, Returned(l, "NO_ITERATIONS"))
          ELSE IF returnBest /\ store.bestIteration # Undef
            THEN /\ Goto(c, "vote_us_load")
                 /\ SetLoc(c, [l EXCEPT !.strategy = "best_tracked",
                                        !.selected = store.bestIteration])
          ELSE IF Len(completed) = 0
            THEN /\ Goto(c, "done")
                 /\ SetLoc(c, Returned(l, "NO_SCORED_ITERATIONS"))
          ELSE /\ Goto(c, "vote_us_load")
               /\ SetLoc(c, [l EXCEPT
                     !.strategy = strategy,
                     !.selected = selectWinner(strategy, completed).iteration,
                     !.voteCount =
                       IF strategy = "consensus"
                         THEN selectConsensusWinner(completed).voteCount
                         ELSE 0,
                     !.ranking =
                       IF strategy = "consensus"
                         THEN buildDiversityFirstRanking(completed)
                         ELSE << >>])
  /\ UNCHANGED <<sessionDir, lock, store, worktrees, lastVote>>

finslipaVote_StatusLoad(c) ==
  LoadOrThrow(c, "vote_us_load", "vote_us_persist", "done", "VOTE_FAILED")

\* A vote that also records its winner as the session's best.
finslipaVote_StatusPersistSettingBest(c) ==
  /\ pc[c] = "vote_us_persist"
  /\ store' = [updateSessionStatus(loc[c].tmp, "evaluating") EXCEPT
                 !.bestIteration = loc[c].selected]
  /\ lastVote' = loc[c].selected
  /\ Finish(c, "OK")
  /\ sessionDir' = "present"
  /\ UNCHANGED <<lock, worktrees, calls, overlapped>>

\* updateSessionStatus(evaluating); the response names the winner.
finslipaVote_StatusPersist(c) ==
  /\ pc[c] = "vote_us_persist"
  /\ store' = updateSessionStatus(loc[c].tmp, "evaluating")
  /\ lastVote' = loc[c].selected
  /\ Finish(c, "OK")
  /\ sessionDir' = "present"
  /\ UNCHANGED <<lock, worktrees, calls, overlapped>>

finslipaVote(c) ==
  \/ finslipaVote_Call(c)
  \/ finslipaVote_StatusLoad(c)
  \/ finslipaVote_StatusPersist(c)

\* -------------------------------------------- WorktreeManager.deleteWorktree
\* `git worktree remove`, falling back to rm -rf: the directory is gone
\* afterwards, unless both fail and the call throws.
deleteWorktree(n) ==
  worktrees' = [k \in DOMAIN worktrees \ {n} |-> worktrees[k]]

\* ------------------------------------------------------------ finslipaMerge
IterationNumberArgs == {Undef} \cup (1..MaxIterInput)

\* args.iterationNumber ?? session.selectedIteration ?? session.currentIteration
targetIteration(arg, session) ==
  IF arg # Undef THEN arg
  ELSE IF session.selectedIteration # Undef THEN session.selectedIteration
  ELSE session.currentIteration

\* session.iterations.find(i => i.iteration === target): index, 0 if none
findIteration(session, target) ==
  LET hits == {i \in 1..Len(session.iterations) :
                 session.iterations[i].iteration = target}
  IN IF hits = {} THEN 0 ELSE CHOOSE i \in hits : \A j \in hits : i <= j

isPerfectScore(it) == it.score = PERFECT_SCORE /\ it.failed = 0 /\ it.passed > 0

\* threshold !== undefined && (iteration.score ?? 0) < threshold
belowThresholdInclusive(it, session) ==
  session.mergeThreshold # Undef /\ it.score <= session.mergeThreshold
belowThreshold(it, session) ==
  session.mergeThreshold # Undef /\ it.score < session.mergeThreshold

\* loadSession and the eligibility checks; no lock is taken.
finslipaMerge_Call(c) ==
  /\ Call(c)
  /\ \E iterationNumber \in IterationNumberArgs :
       LET target == targetIteration(iterationNumber, store)
           l == [LocInit EXCEPT !.op = "merge", !.target = target,
                                !.named = (iterationNumber # Undef),
                                !.voted = lastVote]
           i == findIteration(store, target)
           it == store.iterations[i]
       IN IF ~store.exists
            THEN /\ Goto(c, "done")
                 /\ SetLoc(c, Returned(l, "SESSION_NOT_FOUND"))
          ELSE IF i = 0
            THEN /\ Goto(c, "done")
                 /\ SetLoc(c, Returned(l, "ITERATION_NOT_FOUND"))
          ELSE IF Len(completedIterations(store)) < MIN_COMPLETED_TO_MERGE
                  /\ ~isPerfectScore(it)
            THEN /\ Goto(c, "done")
                 /\ SetLoc(c, Returned(l, "INSUFFICIENT_ITERATIONS"))
          ELSE IF belowThreshold(it, store)
            THEN /\ Goto(c, "done")
                 /\ SetLoc(c, Returned(l, "SCORE_BELOW_THRESHOLD"))
          ELSE IF it.worktreePath
            THEN /\ Goto(c, "mrg_git")
                 /\ SetLoc(c, l)
          ELSE /\ Goto(c, "mrg_us_load")
               /\ SetLoc(c, l)
  /\ UNCHANGED <<sessionDir, lock, store, worktrees, lastVote>>

\* commitWorktreeChanges in the iteration's worktree, then git merge of its
\* branch into the base line; either may throw.
finslipaMerge_Git(c) ==
  /\ pc[c] = "mrg_git"
  /\ \/ /\ loc[c].target \in DOMAIN worktrees
        /\ Goto(c, "mrg_del")
        /\ UNCHANGED loc
     \/ Finish(c, "GIT_MERGE_FAILED")
  /\ UNCHANGED <<sessionDir, lock, store, worktrees, lastVote, calls,
               overlapped>>

\* deleteWorktree of the merged iteration's branch; a throw fails the call.
finslipaMerge_Delete(c) ==
  /\ pc[c] = "mrg_del"
  /\ \/ /\ deleteWorktree(loc[c].target)
        /\ Goto(c, "mrg_us_load")
        /\ UNCHANGED loc
     \/ /\ UNCHANGED worktrees
        /\ Finish(c, "GIT_MERGE_FAILED")
  /\ UNCHANGED <<sessionDir, lock, store, lastVote, calls, overlapped>>

finslipaMerge_StatusLoad(c) ==
  LoadOrThrow(c, "mrg_us_load", "mrg_us_persist", "done", "MERGE_FAILED")

finslipaMerge_StatusPersist(c) ==
  /\ pc[c] = "mrg_us_persist"
  /\ store' = updateSessionStatus(loc[c].tmp, "completed")
  /\ Finish(c, "OK")
  /\ sessionDir' = "present"
  /\ UNCHANGED <<lock, worktrees, lastVote, calls, overlapped>>

finslipaMerge(c) ==
  \/ finslipaMerge_Call(c)
  \/ finslipaMerge_Git(c)
  \/ finslipaMerge_Delete(c)
  \/ finslipaMerge_StatusLoad(c)
  \/ finslipaMerge_StatusPersist(c)

\* ----------------------------------------------------------- finslipaCancel
\* The iterations of the loaded session that have a worktree path, in order.
worktreeIterationsUntilFirst(session) ==
  IF session.iterations # << >> /\ Head(session.iterations).worktreePath
    THEN <<Head(session.iterations).iteration>>
    ELSE << >>

worktreeIterations(session) ==
  LET withPath == SelectSeq(session.iterations, LAMBDA it : it.worktreePath)
  IN [i \in 1..Len(withPath) |-> withPath[i].iteration]

\* loadSession and the already-finished check; no lock is taken.
finslipaCancel_Call(c) ==
  /\ Call(c)
  /\ LET l == [LocInit EXCEPT !.op = "cancel"]
     IN IF ~store.exists
          THEN /\ Goto(c, "done")
               /\ SetLoc(c, Returned(l, "SESSION_NOT_FOUND"))
        ELSE IF store.status \in {"completed", "cancelled"}
          THEN /\ Goto(c, "done")
               /\ SetLoc(c, Returned(l, "SESSION_ALREADY_FINISHED"))
        ELSE /\ Goto(c, "cnl_loop")
             /\ SetLoc(c, [l EXCEPT !.todo = worktreeIterations(store)])
  /\ UNCHANGED <<sessionDir, lock, store, worktrees, lastVote>>

\* One turn of the loop over the loaded session's iterations: deleteWorktree
\* for the next iteration with a worktree path; a throw is logged and
\* ignored.
finslipaCancel_Loop(c) ==
  /\ pc[c] = "cnl_loop"
  /\ IF loc[c].todo = << >>
       THEN /\ Goto(c, "cnl_us_load")
            /\ UNCHANGED <<loc, worktrees>>
       ELSE /\ Goto(c, "cnl_loop")
            /\ SetLoc(c, [loc[c] EXCEPT !.todo = Tail(@)])
            /\ \/ deleteWorktree(Head(loc[c].todo))
               \/ UNCHANGED worktrees
  /\ UNCHANGED <<sessionDir, lock, store, lastVote, calls, overlapped>>

finslipaCancel_StatusLoad(c) ==
  LoadOrThrow(c, "cnl_us_load", "cnl_us_persist", "done", "CANCEL_FAILED")

finslipaCancel_StatusPersist(c) ==
  /\ pc[c] = "cnl_us_persist"
  /\ store' = updateSessionStatus(loc[c].tmp, "cancelled")
  /\ Finish(c, "OK")
  /\ sessionDir' = "present"
  /\ UNCHANGED <<lock, worktrees, lastVote, calls, overlapped>>

finslipaCancel(c) ==
  \/ finslipaCancel_Call(c)
  \/ finslipaCancel_Loop(c)
  \/ finslipaCancel_StatusLoad(c)
  \/ finslipaCancel_StatusPersist(c)

\* ------------------------------------------------------------ finslipaClean
\* finslipa_clean's arguments: a session id, a status filter, or neither.
CleanArgs == {"sessionId", "completed", "cancelled", "all"}

cleanableStatuses == {"completed", "cancelled", "failed"}

\* The statuses a clean with argument arg removes.
cleanedStatuses(arg) ==
  IF arg \in {"completed", "cancelled"} THEN {arg} ELSE cleanableStatuses

\* WorktreeManager.listSessionWorktreePaths: the worktree directories found
\* on disk, here by iteration number.
RECURSIVE listSessionWorktreePaths(_)
listSessionWorktreePaths(S) ==
  IF S = {}
    THEN << >>
    ELSE LET n == CHOOSE m \in S : \A k \in S : m <= k
         IN <<n>> \o listSessionWorktreePaths(S \ {n})

\* SessionManager.deleteSession: rm -rf of the session directory, with
\* state.json and the lock marker in it.
deleteSession ==
  /\ sessionDir' = "removed"
  /\ store' = NoDoc
  /\ lock' = NoLock

\* cleanSpecificSession, cleanSessionsByStatus, cleanAllFinishedSessions:
\* loadSession and the test of the loaded status; no lock is taken.
finslipaClean_Call(c) ==
  /\ Call(c)
  /\ \E arg \in CleanArgs :
       LET l == [LocInit EXCEPT !.op = "clean", !.arg = arg]
       IN IF store.exists /\ store.status \in cleanedStatuses(arg)
            THEN /\ Goto(c, "cln_loop")
                 /\ SetLoc(c, [l EXCEPT !.todo = worktreeIterations(store)])
          ELSE IF arg = "sessionId"
            THEN /\ Goto(c, "done")
                 /\ SetLoc(c, Returned(l, IF store.exists
                                            THEN "SESSION_IN_PROGRESS"
                                            ELSE "SESSION_NOT_FOUND"))
          ELSE IF arg = "all"
            THEN /\ Goto(c, "cln_orphans")
                 /\ SetLoc(c, l)
          ELSE /\ Goto(c, "done")
               /\ SetLoc(c, Returned(l, "OK"))
  /\ UNCHANGED <<sessionDir, lock, store, worktrees, lastVote>>

\* cleanWorktreesForSession: one turn of the loop over the loaded session's
\* iterations; a throw of deleteWorktree is logged and ignored.
finslipaClean_Loop(c) ==
  /\ pc[c] = "cln_loop"
  /\ IF loc[c].todo = << >>
       THEN /\ Goto(c, "cln_delete")
            /\ UNCHANGED <<loc, worktrees>>
       ELSE /\ Goto(c, "cln_loop")
            /\ SetLoc(c, [loc[c] EXCEPT !.todo = Tail(@)])
            /\ \/ deleteWorktree(Head(loc[c].todo))
               \/ UNCHANGED worktrees
  /\ UNCHANGED <<sessionDir, lock, store, lastVote, calls, overlapped>>

\* deleteSession of the session loaded at the call; cleanAllFinishedSessions
\* goes on to the orphaned worktrees.
finslipaClean_Delete(c) ==
  /\ pc[c] = "cln_delete"
  /\ deleteSession
  /\ IF loc[c].arg = "all"
       THEN Goto(c, "cln_orphans") /\ UNCHANGED loc
       ELSE Finish(c, "OK")
  /\ UNCHANGED <<worktrees, lastVote, calls, overlapped>>

\* cleanOrphanedWorktrees: listSessionWorktreePaths.
finslipaClean_ListWorktrees(c) ==
  /\ pc[c] = "cln_orphans"
  /\ SetLoc(c, [loc[c] EXCEPT
                  !.todo = listSessionWorktreePaths(DOMAIN worktrees)])
  /\ Goto(c, "cln_sessions")
  /\ UNCHANGED <<sessionDir, lock, store, worktrees, lastVote, calls,
               overlapped>>

\* A cleanOrphanedWorktrees that takes every path for orphaned, whatever
\* listSessions returns.
finslipaClean_ListSessionsUnread(c) ==
  /\ pc[c] = "cln_sessions"
  /\ Goto(c, "cln_orphan_loop")
  /\ UNCHANGED <<sessionDir, lock, store, worktrees, lastVote, calls,
               overlapped, loc>>

\* cleanOrphanedWorktrees: listSessions; the paths of a session whose
\* directory is listed are not orphaned.
finslipaClean_ListSessions(c) ==
  /\ pc[c] = "cln_sessions"
  /\ SetLoc(c, [loc[c] EXCEPT
                  !.todo = IF sessionDir = "present" THEN << >> ELSE @])
  /\ Goto(c, "cln_orphan_loop")
  /\ UNCHANGED <<sessionDir, lock, store, worktrees, lastVote, calls,
               overlapped>>

\* cleanOrphanedWorktrees: one turn of the loop, deleteWorktreeByPath; a
\* throw is collected in the response's errors.
finslipaClean_OrphanLoop(c) ==
  /\ pc[c] = "cln_orphan_loop"
  /\ IF loc[c].todo = << >>
       THEN /\ Finish(c, "OK")
            /\ UNCHANGED worktrees
       ELSE /\ Goto(c, "cln_orphan_loop")
            /\ \/ /\ deleteWorktree(Head(loc[c].todo))
                  /\ SetLoc(c, [loc[c] EXCEPT !.todo = Tail(@),
                                              !.cleanedCount = @ + 1])
               \/ /\ UNCHANGED worktrees
                  /\ SetLoc(c, [loc[c] EXCEPT !.todo = Tail(@),
                                              !.errors = TRUE])
  /\ UNCHANGED <<sessionDir, lock, store, lastVote, calls, overlapped>>

finslipaClean(c) ==
  \/ finslipaClean_Call(c)
  \/ finslipaClean_Loop(c)
  \/ finslipaClean_Delete(c)
  \/ finslipaClean_ListWorktrees(c)
  \/ finslipaClean_ListSessions(c)
  \/ finslipaClean_OrphanLoop(c)

\* ------------------------------------------------------------ specification
\* The calls on the session other than finslipaStart, and the clock.
SessionStep ==
  \/ Tick
  \/ \E c \in Callers :
       \/ finslipaCheck(c)
       \/ finslipaVote(c)
       \/ finslipaMerge(c)
       \/ finslipaCancel(c)
       \/ finslipaClean(c)
       \/ Return(c)

\* Sessions started with the caps a caller means to give.
Next ==
  \/ \E c \in Callers : finslipaStart(c, MaxIterationsArgs)
  \/ SessionStep

Spec == Init /\ [][Next]_vars

\* The same calls where every reclamation of a worktree succeeds: no
\* deleteWorktree of a cancel or a clean throws.
ReclaimLoopPcs == {"cnl_loop", "cln_loop", "cln_orphan_loop"}

reclaimsSucceed ==
  \A c \in Callers :
    /\ pc[c] \in ReclaimLoopPcs
    /\ loc[c].todo # << >>
    /\ loc'[c].todo = Tail(loc[c].todo)
    => Head(loc[c].todo) \notin DOMAIN worktrees'

NextReclaiming == Next /\ reclaimsSucceed

SpecReclaiming == Init /\ [][NextReclaiming]_vars

\* The clock advances, and a caller waiting in withLock's loop is woken by
\* its 100 ms timer and makes its next attempt.  Nothing is assumed of the
\* caller that holds the lock.
SpecWaiting ==
  /\ Init
  /\ [][Next]_vars
  /\ WF_vars(Tick)
  /\ \A c \in Callers : WF_vars(withLock_Retry(c))

\* A session as finslipaStart and one validate whose tests all pass leave
\* it: completed, with the record and the worktree of iteration 1.  The
\* calls on it are counted from there.
PassingInput ==
  [tr |-> [passed |-> 2, failed |-> 0, total |-> 2],
   diff |-> [changes |-> 40, files |-> 1], rawDiff |-> "A",
   failureSoft |-> 0]

PassingRecord ==
  IterationResult([LocInit EXCEPT
                     !.iteration = 1,
                     !.tr = PassingInput.tr,
                     !.diffSize = PassingInput.diff.changes,
                     !.rawDiff = PassingInput.rawDiff,
                     !.softScore =
                       calculateTestResultsSoftScore(PassingInput.tr,
                                                     PassingInput.failureSoft),
                     !.score = calculateScore(PassingInput.tr,
                                              PassingInput.diff),
                     !.wt = TRUE])

FinishedSession(maxIterations) ==
  LET created == createSession(maxIterations, Undef)
      iterating == updateSessionStatus(created, "iterating")
      added == addIteration(iterating, PassingRecord)
      best == updateBestResult(added, 1, PassingRecord.score)
  IN updateSessionStatus(best, "completed")

InitFinishedSession ==
  /\ sessionDir = "present"
  /\ lock = NoLock
  /\ store \in {FinishedSession(m) : m \in MaxIterationsArgs}
  /\ worktrees = (1 :> Main)
  /\ lastVote = Undef
  /\ calls = 0
  /\ overlapped = FALSE
  /\ pc = [c \in Callers |-> "idle"]
  /\ loc = [c \in Callers |-> LocInit]

SpecFinishedSession == InitFinishedSession /\ [][SessionStep]_vars

\* What the validates of a session to be voted on find: every run has tests;
\* two diffs of the same size differ in their text.
VoteInputs ==
  { [tr |-> [passed |-> 1, failed |-> 1, total |-> 2],
     diff |-> [changes |-> 0, files |-> 0], rawDiff |-> "",
     failureSoft |-> 0],
    [tr |-> [passed |-> 2, failed |-> 0, total |-> 2],
     diff |-> [changes |-> 0, files |-> 0], rawDiff |-> "",
     failureSoft |-> 0],
    [tr |-> [passed |-> 1, failed |-> 1, total |-> 2],
     diff |-> [changes |-> 40, files |-> 1], rawDiff |-> "A",
     failureSoft |-> 50],
    [tr |-> [passed |-> 2, failed |-> 0, total |-> 2],
     diff |-> [changes |-> 40, files |-> 1], rawDiff |-> "A",
     failureSoft |-> 0],
    [tr |-> [passed |-> 2, failed |-> 0, total |-> 2],
     diff |-> [changes |-> 40, files |-> 1], rawDiff |-> "B",
     failureSoft |-> 0],
    [tr |-> [passed |-> 2, failed |-> 0, total |-> 2],
     diff |-> [changes |-> 10, files |-> 1], rawDiff |-> "C",
     failureSoft |-> 0] }

\* The session as the validates that found inputs leave it, one validate
\* after the other: iterating, addIteration, updateBestResult, and completed
\* when all tests pass.
RECURSIVE Validated(_, _)
Validated(session, inputs) ==
  IF inputs = << >> THEN session
  ELSE
    LET inp == Head(inputs)
        score == calculateScore(inp.tr, inp.diff)
        it == IterationResult([LocInit EXCEPT
                                 !.iteration = session.currentIteration + 1,
                                 !.tr = inp.tr,
                                 !.diffSize = inp.diff.changes,
                                 !.rawDiff = inp.rawDiff,
                                 !.softScore =
                                   calculateTestResultsSoftScore(
                                     inp.tr, inp.failureSoft),
                                 !.score = score,
                                 !.wt = TRUE])
        added == addIteration(updateSessionStatus(session, "iterating"), it)
        best == IF improvesBest(added, score)
                  THEN updateBestResult(added, it.iteration, score)
                  ELSE added
        done == IF allTestsPassing(inp.tr, score)
                  THEN updateSessionStatus(best, "completed")
                  ELSE best
    IN Validated(done, Tail(inputs))

\* The records a caller of SessionManager.addIteration hands over, as the
\* vote tests do: completed, with a score and a diff of its choice, without
\* test results or worktree.
AddedRecords ==
  { [score |-> 50, diffSize |-> 7, code |-> "D"],
    [score |-> 100, diffSize |-> 7, code |-> "D"],
    [score |-> 100, diffSize |-> 70, code |-> "E"],
    [score |-> 90, diffSize |-> 70, code |-> "E"],
    [score |-> 90, diffSize |-> 300, code |-> "F"] }

\* The session after addIteration of each of the records, numbered in
\* order.
RECURSIVE Added(_, _)
Added(session, records) ==
  IF records = << >> THEN session
  ELSE
    LET r == Head(records)
        it == [iteration |-> session.currentIteration + 1,
               status |-> "completed",
               passed |-> 0, failed |-> 0, total |-> 0,
               score |-> r.score, diffSize |-> r.diffSize,
               worktreePath |-> FALSE, code |-> r.code,
               softScore |-> Undef]
    IN Added(addIteration(session, it), Tail(records))

\* The sessions with one to MaxVoteRecords records: validated ones, each
\* record with its worktree, and ones filled by addIteration alone.
InitVote ==
  /\ sessionDir = "present"
  /\ lock = NoLock
  /\ \E n \in 1..MaxVoteRecords :
       \/ \E inputs \in [1..n -> VoteInputs] :
            /\ store = Validated(createSession(DEFAULT_MAX_ITERATIONS, Undef),
                                 inputs)
            /\ worktrees = [k \in 1..n |-> setupWorktreeBase(k)]
       \/ \E records \in [1..n -> AddedRecords] :
            /\ store = Added(createSession(DEFAULT_MAX_ITERATIONS, Undef),
                             records)
            /\ worktrees = << >>
  /\ lastVote = Undef
  /\ calls = 0
  /\ overlapped = FALSE
  /\ pc = [c \in Callers |-> "idle"]
  /\ loc = [c \in Callers |-> LocInit]

\* Votes on such a session.
NextVote == \E c \in Callers : finslipaVote(c) \/ Return(c)

SpecVote == InitVote /\ [][NextVote]_vars

\* One caller validates a started session again and again, alone: it finds
\* no marker, so withLock's retry does not occur.  Every call yields a test
\* outcome with tests in it: createWorktree succeeds and the runner
\* resolves with total > 0.
InitRefinementLoop ==
  /\ sessionDir = "present"
  /\ lock = NoLock
  /\ store \in {createSession(effectiveMaxIterations(m), t) :
                  m \in MaxIterationsArgs, t \in MergeThresholdArgs}
  /\ worktrees = (1 :> Main)
  /\ lastVote = Undef
  /\ calls = 0
  /\ overlapped = FALSE
  /\ pc = [c \in Callers |-> "idle"]
  /\ loc = [c \in Callers |-> LocInit]

LoopCaller == 1

RefinementLoopStep ==
  \/ finslipaCheck_Call(LoopCaller)
  \/ acquireLock_Write(LoopCaller)
  \/ finslipaCheck_Load(LoopCaller)
  \/ finslipaCheck_FailLoad(LoopCaller)
  \/ finslipaCheck_FailPersist(LoopCaller)
  \/ finslipaCheck_IterLoad(LoopCaller)
  \/ finslipaCheck_IterPersist(LoopCaller)
  \/ setupWorktree_Exists(LoopCaller)
  \/ setupWorktree_Create(LoopCaller) /\ pc'[LoopCaller] = "chk_test"
  \/ addIteration_Load(LoopCaller)
  \/ addIteration_Persist(LoopCaller)
  \/ updateBestResult_Load(LoopCaller)
  \/ updateBestResult_Persist(LoopCaller)
  \/ persistIterationPhase_DoneLoad(LoopCaller)
  \/ persistIterationPhase_DonePersist(LoopCaller)
  \/ releaseLock(LoopCaller)
  \/ Return(LoopCaller)

NextRefinementLoop ==
  \/ RefinementLoopStep
  \/ runTestPhase(LoopCaller) /\ pc'[LoopCaller] = "chk_add_load"

\* The caller goes on calling, each step a handler awaits completes, and
\* the test phase ends: the runner's promise settles, after the timeout
\* given to spawn at the latest.
SpecRefinementLoop ==
  /\ InitRefinementLoop
  /\ [][NextRefinementLoop]_vars
  /\ WF_vars(RefinementLoopStep)
  /\ []<>(pc[LoopCaller] # "chk_test")

\* ---- One caller validates a started session again and again, alone, with
\* every outcome a validate can have; the first worktree exists or start
\* has failed to create it.  The caller keeps the status the session had
\* when it called, to compare it with the status it finds afterwards.
InitValidate ==
  /\ sessionDir = "present"
  /\ lock = NoLock
  /\ store \in {createSession(effectiveMaxIterations(m), t) :
                  m \in MaxIterationsArgs, t \in MergeThresholdArgs}
  /\ worktrees \in {1 :> Main, << >>}
  /\ lastVote = Undef
  /\ calls = 0
  /\ overlapped = FALSE
  /\ pc = [c \in Callers |-> "idle"]
  /\ loc = [c \in Callers |-> LocInit]

finslipaCheck_CallOnStatus(c) ==
  /\ Call(c)
  /\ withLock_Turn(c, [LocInit EXCEPT !.op = "check", !.elapsed = 0,
                                      !.statusAtCall = store.status])
  /\ UNCHANGED <<sessionDir, lock, store, worktrees, lastVote>>

NextValidate ==
  \/ finslipaCheck_CallOnStatus(LoopCaller)
  \/ acquireLock_Write(LoopCaller)
  \/ finslipaCheck_Load(LoopCaller)
  \/ finslipaCheck_FailLoad(LoopCaller)
  \/ finslipaCheck_FailPersist(LoopCaller)
  \/ finslipaCheck_IterLoad(LoopCaller)
  \/ finslipaCheck_IterPersist(LoopCaller)
  \/ setupWorktree_Exists(LoopCaller)
  \/ setupWorktree_Create(LoopCaller)
  \/ runTestPhase(LoopCaller)
  \/ addIteration_Load(LoopCaller)
  \/ addIteration_Persist(LoopCaller)
  \/ updateBestResult_Load(LoopCaller)
  \/ updateBestResult_Persist(LoopCaller)
  \/ persistIterationPhase_DoneLoad(LoopCaller)
  \/ persistIterationPhase_DonePersist(LoopCaller)
  \/ releaseLock(LoopCaller)
  \/ Return(LoopCaller)

SpecValidate == InitValidate /\ [][NextValidate]_vars

\* ---- WorktreeManager's two reclaims, step by step.  A step is the command
\* and whether it succeeded; the outcomes of the commands are the inputs.
Step(cmd, ok) == [cmd |-> cmd, ok |-> ok]

\* WorktreeManager.deleteWorktree: git worktree remove; on its failure
\* rm -rf of the directory.
deleteWorktreeSteps(removeOk, rmOk, pruneOk) ==
  IF removeOk THEN <<Step("git worktree remove", TRUE)>>
  ELSE <<Step("git worktree remove", FALSE), Step("rm", rmOk)>>

\* WorktreeManager.deleteWorktreeByPath: git worktree remove --force; on
\* its failure rm -rf of the directory, then git worktree prune.
deleteWorktreeByPathSteps(removeOk, rmOk, pruneOk) ==
  IF removeOk THEN <<Step("git worktree remove", TRUE)>>
  ELSE IF rmOk
    THEN <<Step("git worktree remove", FALSE), Step("rm", TRUE),
           Step("git worktree prune", pruneOk)>>
  ELSE <<Step("git worktree remove", FALSE), Step("rm", FALSE)>>

\* Both throw "Failed to delete worktree" when a command of the fallback
\* throws.
reclaimThrows(steps) == \E k \in 2..Len(steps) : ~steps[k].ok

\* The directory is gone once a removal has succeeded.
directoryRemoved(steps) ==
  \E k \in 1..Len(steps) :
    steps[k].cmd \in {"git worktree remove", "rm"} /\ steps[k].ok

reclaim(c, op, n, steps) ==
  /\ Call(c)
  /\ IF directoryRemoved(steps) THEN deleteWorktree(n)
                                ELSE UNCHANGED worktrees
  /\ SetLoc(c, [LocInit EXCEPT
                  !.op = op, !.target = n, !.steps = steps,
                  !.result = IF reclaimThrows(steps) THEN "THROWN" ELSE "OK"])
  /\ Goto(c, "done")
  /\ UNCHANGED <<sessionDir, lock, store, lastVote>>

WorktreeManager_deleteWorktree(c) ==
  \E n \in 1..MaxIterInput, removeOk \in BOOLEAN, rmOk \in BOOLEAN,
     pruneOk \in BOOLEAN :
    reclaim(c, "deleteWorktree", n,
            deleteWorktreeSteps(removeOk, rmOk, pruneOk))

WorktreeManager_deleteWorktreeByPath(c) ==
  \E n \in 1..MaxIterInput, removeOk \in BOOLEAN, rmOk \in BOOLEAN,
     pruneOk \in BOOLEAN :
    reclaim(c, "deleteWorktreeByPath", n,
            deleteWorktreeByPathSteps(removeOk, rmOk, pruneOk))

\* The worktrees of the iterations, each present or not.
InitWorktrees ==
  /\ sessionDir = "present"
  /\ lock = NoLock
  /\ store = NoDoc
  /\ worktrees \in {[k \in S |-> Main] : S \in SUBSET (1..MaxIterInput)}
  /\ lastVote = Undef
  /\ calls = 0
  /\ overlapped = FALSE
  /\ pc = [c \in Callers |-> "idle"]
  /\ loc = [c \in Callers |-> LocInit]

NextWorktrees ==
  \E c \in Callers :
    \/ WorktreeManager_deleteWorktree(c)
    \/ WorktreeManager_deleteWorktreeByPath(c)
    \/ Return(c)

SpecWorktrees == InitWorktrees /\ [][NextWorktrees]_vars

\* ---- The analysis of one run, which needs no session: DiffAnalyzer.analyze
\* of a diff and ScoringEngine.calculateScore of a test outcome and that
\* analysis.
\* The runner's outcomes: total = passed + failed.
ScoreOutcomes ==
  {[passed |-> p, failed |-> f, total |-> p + f] :
     p \in 0..MaxTests, f \in 0..MaxTests}

\* Diffs by their total changed lines and number of touched files.
AnalysisDiffs ==
  {[changes |-> 10 * k + r, files |-> n] :
     k \in 0..MaxChangeTens, r \in 0..1, n \in 0..MaxFiles}

\* The diffs the outcomes are scored with.
ScoreDiffs ==
  {d \in AnalysisDiffs :
     d.changes \in {0, 40, 150, 330, 500} /\ d.files \in {0, 1, 6, MaxFiles}}

\* DiffAnalyzer.analyze
analyze(c) ==
  /\ Call(c)
  /\ \E d \in AnalysisDiffs :
       SetLoc(c, [LocInit EXCEPT
                    !.op = "analyze",
                    !.diffSize = d.changes,
                    !.files = d.files,
                    !.complexity = calculateComplexity(d.changes, d.files),
                    !.complexityScore =
                      calculateComplexityScore(d.changes, d.files)])
  /\ Goto(c, "done")
  /\ UNCHANGED <<sessionDir, lock, store, worktrees, lastVote>>

\* DiffAnalyzer.analyze, then ScoringEngine.calculateScore with it.
getScore(c) ==
  /\ Call(c)
  /\ \E tr \in ScoreOutcomes, d \in ScoreDiffs :
       SetLoc(c, [LocInit EXCEPT
                    !.op = "score",
                    !.tr = tr,
                    !.diffSize = d.changes,
                    !.files = d.files,
                    !.complexity = calculateComplexity(d.changes, d.files),
                    !.complexityScore =
                      calculateComplexityScore(d.changes, d.files),
                    !.score = calculateScore(tr, d)])
  /\ Goto(c, "done")
  /\ UNCHANGED <<sessionDir, lock, store, worktrees, lastVote>>

\* The failures parseOutput collects from a run's output: expected and
\* actual are the texts after "Expected:" and "Received:", or missing.
Failures ==
  [expected : FailureTexts \cup {undefined},
   actual : FailureTexts \cup {undefined}]

\* Failures that stand beside the first one of a run.
FurtherFailures ==
  { [expected |-> <<"5">>, actual |-> <<"4">>],
    [expected |-> <<"a", "b", "c", "d">>, actual |-> undefined],
    [expected |-> <<"[", "1", ",", "2", "]">>,
     actual |-> <<"[", "1", ",", "4", "]">>] }

RECURSIVE failureLists(_)
failureLists(n) ==
  IF n = 0 THEN {<< >>}
  ELSE IF n = 1 THEN {<< >>} \cup {<<f>> : f \in Failures}
  ELSE failureLists(n - 1)
         \cup {fs \o <<f>> : fs \in failureLists(n - 1) \ {<< >>},
                               f \in FurtherFailures}

\* runTestPhase's soft scoring of a parsed run: the run's total is the
\* number of its passes and failures, with as many passes as failures at
\* most.
getSoftScore(c) ==
  /\ Call(c)
  /\ \E passed \in 0..MaxFailures, failures \in failureLists(MaxFailures) :
       LET tr == [passed |-> passed, failed |-> Len(failures),
                  total |-> passed + Len(failures)]
           scores == [k \in 1..Len(failures) |->
                        calculateFailureSoftScore(failures[k])]
       IN SetLoc(c, [LocInit EXCEPT
                       !.op = "soft",
                       !.tr = tr,
                       !.failures = failures,
                       !.failureScores = scores,
                       !.softScore =
                         calculateTestResultsSoftScore(tr, sumOf(scores))])
  /\ Goto(c, "done")
  /\ UNCHANGED <<sessionDir, lock, store, worktrees, lastVote>>

NextScoring ==
  \E c \in Callers :
    analyze(c) \/ getScore(c) \/ getSoftScore(c) \/ Return(c)

SpecScoring == Init /\ [][NextScoring]_vars

\* Sessions started with any number finslipaStart accepts as the cap.
NextAnyNumber ==
  \/ \E c \in Callers : finslipaStart(c, AnyNumberMaxIterationsArgs)
  \/ SessionStep

SpecAnyNumber == Init /\ [][NextAnyNumber]_vars

\* ================================================================== claims
Terminal == {"completed", "failed", "cancelled"}

\* Caller c is executing the operation its withLock encloses.
InEnclosedOperation(c) == pc[c] \in CheckOperationPcs

\* C1: for every interleaving of callers of withLock, at most one caller is
\* executing its enclosed operation at any time.
C1_MutualExclusion ==
  \A c, d \in Callers :
    InEnclosedOperation(c) /\ InEnclosedOperation(d) => c = d

\* The positions of each handler between its first read of the session
\* document and its last write of it.
ReadModifyWritePcs ==
  CheckOperationPcs
    \cup {"vote_us_load", "vote_us_persist"}
    \cup {"mrg_git", "mrg_del", "mrg_us_load", "mrg_us_persist"}
    \cup {"cnl_loop", "cnl_us_load", "cnl_us_persist"}

HoldsLock(c) == lock.held /\ lock.pid = c

\* C2: validate, vote, finalize and cancel each perform their whole
\* read-modify-write of the session's state while holding the session's lock.
C2_ReadModifyWriteUnderLock ==
  \A c \in Callers : pc[c] \in ReadModifyWritePcs => HoldsLock(c)

\* The calls so far were made one after the other.  A claim that holds for
\* every interleaving holds for these behaviours; where it fails already for
\* them, no race between callers is involved.
Sequential == ~overlapped

\* C3: once the session's status is completed, failed or cancelled, no later
\* validate, vote, finalize or cancel changes it to a different value
\* (stated for calls made one after the other).
C3_TerminalStatusIsFinal ==
  [][Sequential' /\ store.exists /\ store.status \in Terminal
       => store'.status = store.status]_vars

\* C4: for every iteration n > 1, the workspace of iteration n is created
\* with the branch of iteration n - 1 as its base, never with main (stated
\* for calls made one after the other).
C4_BaseIsPreviousIteration ==
  Sequential => \A n \in DOMAIN worktrees : n > 1 => worktrees[n] = n - 1

\* C5: under any interleaving of validate calls the session never holds two
\* AttemptRecords with the same iteration number.
C5_OneRecordPerIteration ==
  \A i, j \in 1..Len(store.iterations) :
    store.iterations[i].iteration = store.iterations[j].iteration => i = j

\* C6: in every reachable state the session's currentIteration is at most
\* its maxIterations (checked under SpecAnyNumber: every cap finslipaStart
\* accepts).
C6_CurrentIterationWithinCap ==
  store.exists => store.currentIteration <= store.maxIterations

\* Caller c's validate has appended its record and prepared its success
\* response.
ValidateSucceeded(c) == pc[c] = "chk_release" /\ loc[c].result = "OK"

hasPerfectRecord(session) ==
  \E i \in 1..Len(session.iterations) :
    session.iterations[i].score = PERFECT_SCORE

\* The session has succeeded: it is completed or holds a perfect record.
succeeded(session) ==
  session.status = "completed" \/ hasPerfectRecord(session)

\* C8: a validate at the cap on a session with no perfect record returns the
\* max-iterations failure, sets failed, runs no tests and appends no record;
\* and failed is set only when the cap was exhausted without success (stated
\* for calls made one after the other).
C8_FailedOnlyAtExhaustedCap ==
  [][Sequential' =>
     /\ \A c \in Callers :
          pc[c] = "chk_fail_persist" /\ pc'[c] = "chk_release"
            => /\ store'.status = "failed"
               /\ loc'[c].result = "MAX_ITERATIONS_REACHED"
               /\ ~loc'[c].ranTests
               /\ store'.iterations = loc[c].tmp.iterations
     /\ store.exists /\ store.status # "failed" /\ store'.status = "failed"
          => capReached(store) /\ ~succeeded(store)]_vars

\* C9: a finalize call that names no iteration, made after a successful
\* vote, integrates the iteration the vote selected (stated for calls made
\* one after the other).
C9_MergesVoteWinner ==
  Sequential =>
    \A c \in Callers :
      pc[c] = "mrg_del" /\ ~loc[c].named /\ loc[c].voted # Undef
        => loc[c].target = loc[c].voted

\* C10: after a successful finalize no workspace of the session remains
\* (stated for calls made one after the other).
C10_NoWorktreeAfterMerge ==
  Sequential =>
    \A c \in Callers :
      pc[c] = "done" /\ loc[c].op = "merge" /\ loc[c].result = "OK"
        => DOMAIN worktrees = {}

\* Caller c's step is the call of finslipaMerge for an existing record.
MergeCallStep(c) ==
  /\ pc[c] = "idle"
  /\ pc'[c] # "idle"
  /\ loc'[c].op = "merge"
  /\ store.exists
  /\ findIteration(store, loc'[c].target) # 0

\* At least two completed scored attempts, or a perfect target.
EnoughToMerge(it, session) ==
  \/ Cardinality({i \in 1..Len(session.iterations) :
                    /\ session.iterations[i].status = "completed"
                    /\ session.iterations[i].score # Undef}) >= 2
  \/ it.score = 100 /\ it.failed = 0 /\ it.passed > 0

\* No merge threshold, or the target's score reaches it.
MeetsThreshold(it, session) ==
  session.mergeThreshold = Undef \/ it.score >= session.mergeThreshold

\* C11: finalize goes on to integrate and complete only if the session has
\* two completed scored attempts or the target is perfect, and the target's
\* score reaches the merge threshold if one is configured; otherwise it
\* returns INSUFFICIENT_ITERATIONS or SCORE_BELOW_THRESHOLD and leaves the
\* session document and the workspaces unchanged.
C11_MergeOnlyWhenEligible ==
  [][\A c \in Callers :
       MergeCallStep(c) =>
         LET it == store.iterations[findIteration(store, loc'[c].target)]
         IN IF EnoughToMerge(it, store) /\ MeetsThreshold(it, store)
              THEN pc'[c] \in {"mrg_git", "mrg_us_load"}
              ELSE /\ pc'[c] = "done"
                   /\ loc'[c].result =
                        IF ~EnoughToMerge(it, store)
                          THEN "INSUFFICIENT_ITERATIONS"
                          ELSE "SCORE_BELOW_THRESHOLD"
                   /\ UNCHANGED <<store, worktrees>>]_vars

\* C11's case: a finalize refused for a score below the threshold, in a
\* session that has two completed attempts.
C11_RefusedBelowThreshold ==
  \E c \in Callers :
    /\ pc[c] = "done"
    /\ loc[c].op = "merge"
    /\ loc[c].result = "SCORE_BELOW_THRESHOLD"
    /\ Len(store.iterations) >= 2

CancelPcs == {"cnl_loop", "cnl_us_load", "cnl_us_persist"}

\* The indices of the stored records that reference a workspace.
RecordsWithWorktree ==
  {i \in 1..Len(store.iterations) : store.iterations[i].worktreePath}

\* C12: cancelling a session that is not finished attempts to reclaim the
\* workspace of each of the k records that reference one, one attempt per
\* loop turn, each attempt removing the workspace or throwing, and the call
\* then ends with the session cancelled whichever attempts threw.
C12_CancelReclaimsEachWorktree ==
  [][\A c \in Callers :
       Sequential' =>
         /\ pc[c] = "idle" /\ pc'[c] = "cnl_loop" =>
              /\ Len(loc'[c].todo) = Cardinality(RecordsWithWorktree)
              /\ \A i \in RecordsWithWorktree :
                   \E j \in 1..Len(loc'[c].todo) :
                     loc'[c].todo[j] = store.iterations[i].iteration
         /\ pc[c] = "cnl_loop" /\ loc'[c] # loc[c] =>
              /\ loc[c].todo # << >>
              /\ loc'[c].todo = Tail(loc[c].todo)
              /\ \/ worktrees' = worktrees
                 \/ Head(loc[c].todo) \notin DOMAIN worktrees'
         /\ pc[c] = "cnl_loop" /\ pc'[c] # "cnl_loop" =>
              loc[c].todo = << >> /\ pc'[c] = "cnl_us_load"
         /\ pc[c] \in CancelPcs /\ pc'[c] = "done" =>
              loc'[c].result = "OK" /\ store'.status = "cancelled"]_vars

\* C12's case: a cancel of a session with two records has ended while a
\* workspace one of them references is still there, its removal having
\* thrown.
C12_CancelledDespiteThrow ==
  \E c \in Callers :
    /\ pc[c] = "done"
    /\ loc[c].op = "cancel"
    /\ loc[c].result = "OK"
    /\ store.status = "cancelled"
    /\ Len(store.iterations) >= 2
    /\ \E i \in RecordsWithWorktree :
         store.iterations[i].iteration \in DOMAIN worktrees

\* Caller c has written its marker and has not finished its release.
InsideWithLock(c) == pc[c] \in CheckOperationPcs \cup {"chk_release"}

C14_BlockedCallerTimesOut ==
  /\ [][\A c \in Callers :
          pc[c] = "wl_loop" /\ pc'[c] # "wl_loop" =>
            IF lockBlocks(lock) \/ loc[c].elapsed >= LOCK_TIMEOUT
              THEN /\ loc[c].elapsed >= LOCK_TIMEOUT
                   /\ pc'[c] = "done"
                   /\ loc'[c].result = "CHECK_FAILED"
                   /\ UNCHANGED <<lock, store, worktrees>>
              ELSE pc'[c] = "wl_write"]_vars
  /\ \A c \in Callers : pc[c] = "wl_loop" ~> pc[c] # "wl_loop"

\* C14's case: a validate has ended with the lock-timeout failure while the
\* other caller still holds its fresh marker.
C14_TimedOutWhileHeld ==
  \E c, d \in Callers :
    /\ pc[c] = "done"
    /\ loc[c].op = "check"
    /\ loc[c].result = "CHECK_FAILED"
    /\ InsideWithLock(d)
    /\ lock.held /\ lock.pid = d /\ lock.age < LOCK_STALE_THRESHOLD

\* The step is one of caller c's validate.
ValidateStep(c) ==
  /\ loc[c].op = "check"
  /\ pc[c] # pc'[c] \/ loc[c] # loc'[c]

\* C15: a validate whose iteration already has a workspace reuses it, and no
\* step of a validate removes or replaces a workspace or creates one where
\* one exists; validates alone therefore materialize the workspace of an
\* iteration at most once, retries after failed validates included.
C15_WorktreeMaterializedOnce ==
  [][\A c \in Callers :
       ValidateStep(c) =>
         /\ \A n \in DOMAIN worktrees :
              n \in DOMAIN worktrees' /\ worktrees'[n] = worktrees[n]
         /\ pc[c] = "chk_setup" /\ loc[c].iteration \in DOMAIN worktrees =>
              pc'[c] = "chk_test" /\ worktrees' = worktrees
         /\ worktrees' # worktrees =>
              /\ pc[c] = "chk_create"
              /\ loc[c].iteration \notin DOMAIN worktrees
              /\ DOMAIN worktrees' = DOMAIN worktrees \cup {loc[c].iteration}]_vars

\* C15's case: a retry of the validate of iteration 2, which no earlier
\* validate completed, finds the workspace an earlier validate created.
C15_RetryFindsWorktree ==
  \E c \in Callers :
    /\ Sequential
    /\ pc[c] = "chk_setup"
    /\ loc[c].iteration = 2
    /\ store.currentIteration = 1
    /\ 2 \in DOMAIN worktrees

\* The part of the session document that holds the records and the pointers
\* into them.
Scored(session) ==
  <<session.iterations, session.currentIteration,
    session.bestScore, session.bestIteration>>

\* C16: a validate whose runner reports zero tests ends its test phase with
\* NO_TESTS_DETECTED, reaches that result from the test phase only, and no
\* step of a validate outside the persist steps that follow a scored run
\* changes the records, currentIteration or the best-score pointer: the
\* validate appends no record and leaves the three unchanged.
C16_NoTestsNoRecord ==
  [][\A c \in Callers :
       Sequential' /\ ValidateStep(c) =>
         /\ pc[c] = "chk_test" /\ loc'[c].ranTests /\ loc'[c].tr.total = 0 =>
              /\ pc'[c] = "chk_release"
              /\ loc'[c].result = "NO_TESTS_DETECTED"
         /\ pc'[c] = "chk_release" /\ loc'[c].result = "NO_TESTS_DETECTED" =>
              pc[c] = "chk_test"
         /\ pc[c] \notin {"chk_add_persist", "chk_best_persist"} =>
              Scored(store') = Scored(store)]_vars

\* C16's case: a validate of a session that has a record has ended with
\* NO_TESTS_DETECTED, and the record and the pointers are those of the
\* earlier validate.
C16_NoTestsAfterRecord ==
  \E c \in Callers :
    /\ Sequential
    /\ pc[c] = "done"
    /\ loc[c].op = "check"
    /\ loc[c].result = "NO_TESTS_DETECTED"
    /\ Len(store.iterations) = 1
    /\ store.currentIteration = 1
    /\ store.bestIteration = 1

\* C17: when creating the iteration's workspace fails, the validate goes to
\* its release with WORKTREE_CREATION_FAILED, without running the tests
\* anywhere else and without writing the session document; the tests are
\* only ever run with the iteration's workspace in place at setup.
C17_NoFallbackOnCreationFailure ==
  [][\A c \in Callers :
       ValidateStep(c) =>
         /\ pc[c] = "chk_create" =>
              \/ /\ pc'[c] = "chk_test"
                 /\ loc'[c].wt
                 /\ loc[c].iteration \in DOMAIN worktrees'
              \/ /\ pc'[c] = "chk_release"
                 /\ loc'[c].result = "WORKTREE_CREATION_FAILED"
                 /\ ~loc'[c].ranTests
                 /\ UNCHANGED <<store, worktrees>>
         /\ pc'[c] = "chk_test" =>
              loc'[c].wt /\ pc[c] \in {"chk_setup", "chk_create"}
         /\ pc[c] = "chk_release" =>
              /\ store' = store
              /\ pc'[c] = "done"
              /\ loc'[c].result = loc[c].result]_vars

\* C17's case: the validate of iteration 2 has ended with
\* WORKTREE_CREATION_FAILED; the session holds the record of iteration 1
\* only, and iteration 2 has no workspace.
C17_CreationFailedNothingPersisted ==
  \E c \in Callers :
    /\ Sequential
    /\ pc[c] = "done"
    /\ loc[c].op = "check"
    /\ loc[c].result = "WORKTREE_CREATION_FAILED"
    /\ Len(store.iterations) = 1
    /\ store.currentIteration = 1
    /\ 2 \notin DOMAIN worktrees

\* C18: the record sequence only grows by appending: every step leaves the
\* records already persisted unchanged and in place, adds at most one, and
\* the number of an added record is greater than that of every earlier one.
C18_RecordsAppendOnly ==
  [][store.exists /\ store'.exists =>
       LET old == store.iterations
           new == store'.iterations
       IN /\ Len(new) \in {Len(old), Len(old) + 1}
          /\ \A i \in 1..Len(old) : new[i] = old[i]
          /\ Len(new) > Len(old) =>
               \A i \in 1..Len(old) :
                 new[Len(new)].iteration > old[i].iteration]_vars

\* No validate is under way.
NoValidateUnderWay == \A c \in Callers : loc[c].op = "check" => pc[c] = "done"

\* The index of the earliest record whose score no record exceeds.
EarliestMaximum(its) ==
  CHOOSE i \in 1..Len(its) :
    /\ \A j \in 1..Len(its) : its[j].score <= its[i].score
    /\ \A j \in 1..(i - 1) : its[j].score < its[i].score

\* C19: after any sequence of validates the stored best score is the
\* greatest score among the records, and the best iteration is that of the
\* earliest record with that score.
C19_BestIsEarliestMaximum ==
  Sequential /\ NoValidateUnderWay /\ store.exists /\ store.iterations # << >> =>
    LET best == store.iterations[EarliestMaximum(store.iterations)]
    IN /\ store.bestScore = best.score
       /\ store.bestIteration = best.iteration

\* C19's case: two validates have recorded the same greatest score, and a
\* lower one came first or last.
C19_TiedMaximum ==
  /\ Sequential
  /\ NoValidateUnderWay
  /\ Len(store.iterations) >= 2
  /\ \E i, j \in 1..Len(store.iterations) :
       /\ i < j
       /\ store.iterations[i].score = store.iterations[j].score
       /\ store.bestScore = store.iterations[i].score

activeStatuses == {"initializing", "iterating", "evaluating"}

\* C20: clean never deletes a session whose persisted status is
\* initializing, iterating or evaluating, whatever validate, vote or cancel
\* do on the session while the clean runs.
C20_CleanNeverDeletesActiveSession ==
  [][\A c \in Callers :
       pc[c] = "cln_delete" /\ pc'[c] # "cln_delete" =>
         ~(store.exists /\ store.status \in activeStatuses)]_vars

OrphanPcs == {"cln_orphans", "cln_sessions", "cln_orphan_loop"}

\* C21: the orphan pass of clean reclaims a workspace exactly when the
\* session its path names is not among the sessions listSessions returns:
\* while the session's directory is listed no step of the pass removes a
\* workspace, a step of the pass removes at most the workspace it is at, and
\* a pass that ends without deletion errors while the session is not listed
\* leaves no workspace (stated for calls made one after the other; a session
\* exists when its directory is listed).
C21_OrphansReclaimedIffSessionGone ==
  [][\A c \in Callers :
       Sequential' /\ pc[c] \in OrphanPcs =>
         /\ sessionDir = "present" => worktrees' = worktrees
         /\ worktrees' # worktrees =>
              /\ pc[c] = "cln_orphan_loop"
              /\ loc[c].todo # << >>
              /\ DOMAIN worktrees' = DOMAIN worktrees \ {Head(loc[c].todo)}
         /\ pc'[c] = "done" /\ ~loc[c].errors /\ sessionDir # "present" =>
              DOMAIN worktrees' = {}]_vars

\* C21's case: an orphan pass is at its end, without errors, having
\* reclaimed the workspace of the session the same clean deleted.
C21_OrphanReclaimed ==
  \E c \in Callers :
    /\ Sequential
    /\ pc[c] = "cln_orphan_loop"
    /\ loc[c].todo = << >>
    /\ loc[c].cleanedCount >= 1
    /\ ~loc[c].errors
    /\ sessionDir = "removed"
    /\ DOMAIN worktrees = {}

\* Caller c's step is the call of finslipaVote on an existing session.
VoteCallStep(c) ==
  /\ pc[c] = "idle"
  /\ pc'[c] # "idle"
  /\ loc'[c].op = "vote"
  /\ store.exists

\* C22: a vote on a session that has no completed, scored record returns at
\* once with NO_ITERATIONS or NO_SCORED_ITERATIONS, names no winner and
\* leaves the session document, its status included, unchanged.
C22_VoteWithoutAttemptsFails ==
  [][\A c \in Callers :
       VoteCallStep(c) /\ Len(completedIterations(store)) = 0 =>
         /\ pc'[c] = "done"
         /\ loc'[c].result \in {"NO_ITERATIONS", "NO_SCORED_ITERATIONS"}
         /\ loc'[c].selected = Undef
         /\ UNCHANGED <<store, lastVote>>]_vars

\* C22's case: a vote on a started session without records has returned
\* the no-attempts failure.
C22_VotedWithoutAttempts ==
  \E c \in Callers :
    /\ pc[c] = "done"
    /\ loc[c].op = "vote"
    /\ loc[c].result = "NO_ITERATIONS"
    /\ store.exists
    /\ store.status = "initializing"
    /\ lastVote = Undef

\* The step is one of caller c's vote, its call included.
VoteStep(c) ==
  /\ loc[c].op = "vote" \/ (pc[c] = "idle" /\ loc'[c].op = "vote")
  /\ pc[c] # pc'[c] \/ loc[c] # loc'[c]

\* C23: no step of a vote changes a workspace; the only change a vote makes
\* to the session document is its last step's, which sets the status to
\* evaluating and nothing else, and a vote that returns success has made it:
\* records, currentIteration and the best-score pointer are as before
\* (stated for calls made one after the other).
C23_VoteChangesOnlyStatus ==
  [][\A c \in Callers :
       Sequential' /\ VoteStep(c) =>
         /\ worktrees' = worktrees
         /\ store' # store =>
              /\ store' = [store EXCEPT !.status = "evaluating"]
              /\ pc'[c] = "done"
              /\ loc'[c].result = "OK"
         /\ pc'[c] = "done" /\ loc'[c].result = "OK" =>
              /\ store'.status = "evaluating"
              /\ Scored(store') = Scored(store)]_vars

\* C23's case: a vote on a session with two records and their workspaces
\* has succeeded.
C23_VotedOnTwoRecords ==
  \E c \in Callers :
    /\ Sequential
    /\ pc[c] = "done"
    /\ loc[c].op = "vote"
    /\ loc[c].result = "OK"
    /\ store.status = "evaluating"
    /\ Len(store.iterations) = 2
    /\ DOMAIN worktrees = {1, 2}

\* The record the vote called in this step has selected.
Winner(c) == store.iterations[findIteration(store, loc'[c].selected)]

\* C24: with strategy minimal_diff, if some completed record has score 100
\* the winner has score 100 and no score-100 record has a smaller
\* insertions + deletions; only when none has score 100 is the winner a
\* record of smallest insertions + deletions among all completed records.
C24_MinimalDiffPrefersPassing ==
  [][\A c \in Callers :
       VoteCallStep(c) /\ loc'[c].strategy = "minimal_diff" =>
         LET completed == completedIterations(store)
             passing == {i \in 1..Len(completed) :
                           completed[i].score = PERFECT_SCORE}
         IN IF passing # {}
              THEN /\ Winner(c).score = PERFECT_SCORE
                   /\ \A i \in passing :
                        Winner(c).diffSize <= completed[i].diffSize
              ELSE \A i \in 1..Len(completed) :
                     Winner(c).diffSize <= completed[i].diffSize]_vars

\* C24's case: a minimal_diff vote has selected a score-100 record
\* although a record with a lower score has a smaller diff.
C24_PassingBeatsSmallerDiff ==
  \E c \in Callers :
    /\ pc[c] = "vote_us_load"
    /\ loc[c].strategy = "minimal_diff"
    /\ loc[c].selected \in 1..Len(store.iterations)
    /\ LET w == store.iterations[loc[c].selected]
       IN /\ w.score = PERFECT_SCORE
          /\ \E i \in 1..Len(store.iterations) :
               /\ store.iterations[i].score < PERFECT_SCORE
               /\ store.iterations[i].diffSize < w.diffSize

\* C27: with strategy highest_score the winner is a completed record whose
\* score no completed record exceeds, whatever the diffs' sizes, and among
\* records with that score it is the first in record order.
C27_HighestScoreFirstOfTies ==
  [][\A c \in Callers :
       VoteCallStep(c) /\ loc'[c].strategy = "highest_score" =>
         LET completed == completedIterations(store)
             w == findIteration(store, loc'[c].selected)
         IN /\ w \in 1..Len(store.iterations)
            /\ store.iterations[w].status = "completed"
            /\ \A i \in 1..Len(completed) :
                 completed[i].score <= store.iterations[w].score
            /\ \A i \in 1..(w - 1) :
                 store.iterations[i].score < store.iterations[w].score]_vars

\* C27's case: a highest_score vote has selected the first of two records
\* that tie for the greatest score, the later of which has the smaller
\* diff.
C27_TieWithSmallerDiffLater ==
  \E c \in Callers :
    /\ pc[c] = "vote_us_load"
    /\ loc[c].strategy = "highest_score"
    /\ loc[c].selected \in 1..Len(store.iterations)
    /\ \E j \in 1..Len(store.iterations) :
         /\ j > loc[c].selected
         /\ store.iterations[j].score =
              store.iterations[loc[c].selected].score
         /\ store.iterations[j].diffSize <
              store.iterations[loc[c].selected].diffSize

EntryRecord(completed, e) ==
  CHOOSE i \in 1..Len(completed) : completed[i].iteration = e.iteration

\* The ranking has one entry per completed record, flags one entry per
\* group of identical solutions, and lists the flagged entries first.
RankingShape(completed, r) ==
  /\ Len(r) = Len(completed)
  /\ \A i \in 1..Len(completed) :
       Cardinality({k \in 1..Len(r) :
                      r[k].iteration = completed[i].iteration}) = 1
  /\ \A k \in 1..Len(r) :
       r[k].score = completed[EntryRecord(completed, r[k])].score
  /\ \A g \in consensusGroups(completed) :
       Cardinality({k \in 1..Len(r) :
                      /\ r[k].isFirstOfGroup
                      /\ EntryRecord(completed, r[k]) \in g}) = 1
  /\ \A k, m \in 1..Len(r) :
       k < m /\ r[m].isFirstOfGroup => r[k].isFirstOfGroup

C28_TimeoutIsFailure ==
  [][\A c \in Callers :
       Sequential' /\ ValidateStep(c) =>
         /\ pc[c] = "chk_test" /\ loc'[c].timedOut =>
              /\ pc'[c] = "chk_release"
              /\ loc'[c].result \in {"TEST_RUN_FAILED", "NO_TESTS_DETECTED"}
         /\ loc[c].timedOut =>
              /\ Scored(store') = Scored(store)
              /\ pc'[c] # "chk_test"]_vars

\* Caller c's step is the call of finslipaStart while getActiveSession
\* finds the session; the model has such a call only without forceNew.
StartOnActiveStep(c) ==
  /\ pc[c] = "idle"
  /\ pc'[c] # "idle"
  /\ loc'[c].op = "start"
  /\ isActive(store)

\* C29, as the code has it: a start call without forceNew, made while a
\* session in status initializing or iterating exists, returns at once with
\* a success response that reports that session; it creates no session and
\* no worktree and leaves the session document unchanged.
C29_StartReportsActiveSession ==
  [][\A c \in Callers :
       StartOnActiveStep(c) =>
         /\ pc'[c] = "done"
         /\ loc'[c].result = "Found active session"
         /\ loc'[c].result \in successResults
         /\ UNCHANGED <<sessionDir, store, worktrees>>]_vars

\* C29's case: a start has reported the active session, which is iterating
\* and holds a record.
C29_StartFoundIteratingSession ==
  \E c \in Callers :
    /\ pc[c] = "done"
    /\ loc[c].op = "start"
    /\ loc[c].result = "Found active session"
    /\ store.status = "iterating"
    /\ Len(store.iterations) = 1
    /\ DOMAIN worktrees = {1}

\* C29 as stated: a start call without the force flag, made while a session
\* in an active status exists, returns a failure result, creates no session
\* and materializes no workspace.
C29_StartOnActiveSessionFails ==
  [][\A c \in Callers :
       StartOnActiveStep(c) =>
         /\ pc'[c] = "done"
         /\ loc'[c].result \notin successResults
         /\ UNCHANGED <<sessionDir, store, worktrees>>]_vars

\* The loop's caller holds the response that ends the loop: the
\* max-iterations failure, or the success of a validate that has set the
\* session completed.
LoopEnded ==
  /\ pc[LoopCaller] = "done"
  /\ loc[LoopCaller].op = "check"
  /\ \/ loc[LoopCaller].result = "MAX_ITERATIONS_REACHED"
     \/ loc[LoopCaller].result = "OK" /\ store.status = "completed"

\* The validate of the loop's caller returns.
LoopCallReturns ==
  /\ pc[LoopCaller] = "chk_release"
  /\ pc'[LoopCaller] = "done"

\* C30: a caller that calls validate on one session again and again, each
\* call yielding a test outcome with total > 0, eventually receives a
\* completed session or the max-iterations failure, after at most
\* maxIterations + 1 calls.  Every call that returns either is that failure
\* or has added exactly one record, its own, to the session; the session
\* never holds more than maxIterations records; and a call made on a
\* session that holds maxIterations records is answered with the failure.
\* So at most maxIterations calls add a record and the next one ends the
\* loop, if no call has ended it before.
C30_RefinementLoopEnds ==
  /\ <>LoopEnded
  /\ [](Len(store.iterations) <= store.maxIterations)
  /\ [][LoopCallReturns =>
         \/ /\ loc'[LoopCaller].result = "MAX_ITERATIONS_REACHED"
            /\ Len(store.iterations) = store.maxIterations
            /\ ~loc[LoopCaller].ranTests
         \/ /\ loc'[LoopCaller].result = "OK"
            /\ loc[LoopCaller].tr.total > 0
            /\ Len(store.iterations) = loc[LoopCaller].iteration
            /\ store.iterations[Len(store.iterations)].iteration =
                 loc[LoopCaller].iteration]_vars
  /\ [][(pc[LoopCaller] = "chk_load" /\
          Len(store.iterations) = store.maxIterations)
         => pc'[LoopCaller] = "chk_fail_load"]_vars

\* C30's case: with a cap of two, two validates with a failing test have
\* each added a record and the third call has the max-iterations failure.
C30_ThirdCallHitsCapOfTwo ==
  /\ LoopEnded
  /\ loc[LoopCaller].result = "MAX_ITERATIONS_REACHED"
  /\ store.maxIterations = 2
  /\ Len(store.iterations) = 2
  /\ \A k \in 1..2 : store.iterations[k].failed > 0
  /\ store.status = "failed"

\* Caller c holds the score of a test outcome with tests in it.
ScoredOutcome(c) ==
  /\ pc[c] = "done"
  /\ loc[c].op = "score"
  /\ loc[c].tr.total > 0

\* C31: for every test outcome with total > 0 and every diff analysis the
\* hard score is round(100 * passed / total - round(complexityScore * 0.1))
\* clamped to 0..100: d is the rounded deduction, r the rounded difference
\* (halves rounded up, as Math.round does); the score lies in 0..100, and
\* with failed = 0 it is 100 less the deduction.
C31_HardScoreFormula ==
  \A c \in Callers :
    ScoredOutcome(c) =>
      LET l == loc[c]
          t == l.tr.total
          p == l.tr.passed
      IN /\ l.score \in 0..100
         /\ \E d \in 0..20, r \in (0 - 20)..100 :
              /\ 10 * d - 5 <= l.complexityScore
              /\ l.complexityScore < 10 * d + 5
              /\ (2 * r - 1) * t <= 200 * p - 2 * d * t
              /\ 200 * p - 2 * d * t < (2 * r + 1) * t
              /\ l.score = Max(0, Min(100, r))
              /\ l.tr.failed = 0 => l.score = Max(0, 100 - d)

\* Caller c holds the analysis of a diff.
Analyzed(c) ==
  /\ pc[c] = "done"
  /\ loc[c].op = "analyze"

\* The penalty of 10 points for each touched file beyond the fifth.
SpreadPenaltyBeyondFifth(files) == IF files > 5 THEN 10 * (files - 5) ELSE 0

\* C40: for every diff, complexity is low when total changed lines plus 10
\* per touched file beyond the fifth is at most 50, medium when at most 150
\* and high otherwise; and the complexity score lies within 0..100 and
\* includes the same penalty: it is the score of the same changes in no
\* file plus 10 per file beyond the fifth.
C40_ComplexityClassAndScore ==
  \A c \in Callers :
    Analyzed(c) =>
      LET l == loc[c]
          weighted == l.diffSize + SpreadPenaltyBeyondFifth(l.files)
      IN /\ l.complexity = "low" <=> weighted <= 50
         /\ l.complexity = "medium" <=> (50 < weighted /\ weighted <= 150)
         /\ l.complexity = "high" <=> weighted > 150
         /\ l.complexityScore \in 0..100
         /\ l.complexityScore =
              calculateComplexityScore(l.diffSize, 0)
                + SpreadPenaltyBeyondFifth(l.files)

\* ---- C32 ----
SoftScored(c) == pc[c] = "done" /\ loc[c].op = "soft" /\ loc[c].tr.total > 0

missingOrEmpty(text) == text = undefined \/ text = << >>

\* C32: for every test outcome with total > 0 the aggregate soft score
\* lies in [0,1]; each per-failure soft score lies in [0,1], is exactly 1
\* when expected and actual are equal, and exactly 0 when expected or
\* actual is empty or missing.
C32_SoftScoreRange ==
  \A c \in Callers :
    SoftScored(c) =>
      /\ loc[c].softScore \in 0..100
      /\ \A k \in 1..Len(loc[c].failures) :
           LET f == loc[c].failures[k]
               s == loc[c].failureScores[k]
           IN /\ s \in 0..100
              /\ missingOrEmpty(f.expected) \/ missingOrEmpty(f.actual)
                   => s = 0
              /\ ~missingOrEmpty(f.expected) /\ f.expected = f.actual
                   => s = 100

\* The part of C32 that holds: equal texts score 1, an empty or missing
\* text scores 0, and no score is a number outside [0,1].
C32_SoftScoreRangeOfNumbers ==
  \A c \in Callers :
    SoftScored(c) =>
      /\ loc[c].softScore \in 0..100 \cup {NaN}
      /\ \A k \in 1..Len(loc[c].failures) :
           LET f == loc[c].failures[k]
               s == loc[c].failureScores[k]
           IN /\ s \in 0..100 \cup {NaN}
              /\ s = NaN => Infinity \in {f.expected, f.actual}
              /\ missingOrEmpty(f.expected) \/ missingOrEmpty(f.actual)
                   => s = 0
              /\ ~missingOrEmpty(f.expected) /\ f.expected = f.actual
                   => s = 100

\* ---- C33 ----
\* Caller c makes an attempt of acquireLock in this step: the first one of
\* a validate call, or a retry that leaves the retry loop.
AcquireAttempt(c) ==
  \/ pc[c] = "idle" /\ pc'[c] # "idle" /\ loc'[c].op = "check"
  \/ pc[c] = "wl_loop" /\ pc'[c] # "wl_loop"

StaleMarker == lock.held /\ lock.age >= LOCK_STALE_THRESHOLD
YoungMarker == lock.held /\ lock.age < LOCK_STALE_THRESHOLD

\* C33: an acquireLock that finds a marker younger than the staleness
\* threshold fails and leaves the marker as it is; one that finds a marker
\* whose age is at least the threshold goes on, and its write replaces the
\* marker by one naming the new owner and the time of this acquisition.
C33_AcquireLockStaleness ==
  [][\A c \in Callers :
       /\ AcquireAttempt(c) /\ YoungMarker
            => pc'[c] # "wl_write" /\ lock' = lock
       /\ AcquireAttempt(c) /\ StaleMarker /\ loc'[c].result # "CHECK_FAILED"
            => pc'[c] = "wl_write" /\ loc'[c].markerAge = 0
       /\ pc[c] = "wl_write" /\ pc'[c] # "wl_write"
            => lock' = [held |-> TRUE, pid |-> c, age |-> loc[c].markerAge]
     ]_vars

\* A caller has found another caller's stale marker and is about to
\* replace it, while a third attempt is held off by a young marker.
C33_StaleMarkerAboutToBeReplaced ==
  \E c \in Callers :
    /\ pc[c] = "wl_write"
    /\ loc[c].markerAge = 0
    /\ StaleMarker
    /\ lock.pid # c

C33_YoungMarkerHoldsOff ==
  \E c \in Callers : pc[c] = "wl_loop" /\ YoungMarker /\ lock.pid # c

\* ---- C34 ----
\* Caller c releases in this step: withLock's finally after its operation.
Releases(c) == pc[c] = "chk_release" /\ pc'[c] = "done"

\* C34: a caller's release removes the lock marker only if that caller
\* wrote it; a marker that names another caller, who took the lock over,
\* is left in place.
C34_ReleaseOnlyOwnMarker ==
  [][\A c \in Callers :
       Releases(c) /\ lock.held /\ lock.pid # c => lock' = lock]_vars

\* ---- C35 ----
ValidateFailures ==
  {"WORKTREE_CREATION_FAILED", "TEST_RUN_FAILED", "NO_TESTS_DETECTED"}

FailedValidate(c) ==
  pc[c] = "done" /\ loc[c].op = "check" /\ loc[c].result \in ValidateFailures

\* C35: a validate call that returns a workspace-creation failure, a
\* test-run failure or a no-tests-detected failure leaves the persisted
\* session status as it was before the call.
C35_FailedValidateKeepsStatus ==
  \A c \in Callers :
    FailedValidate(c) => store.status = loc[c].statusAtCall

\* What the code does instead: such a validate leaves the session
\* iterating, whatever its status was.
C35_FailedValidateLeavesIterating ==
  \A c \in Callers : FailedValidate(c) => store.status = "iterating"

\* ---- C36 ----
\* Caller c's cancel, or its clean of the one session, completes in this
\* step, in a history without overlapping calls.
ReclaimCompletes(c) ==
  /\ ~overlapped
  /\ pc'[c] = "done"
  /\ \/ pc[c] = "cnl_us_persist"
     \/ pc[c] = "cln_delete" /\ loc[c].arg = "sessionId"

\* C36: after a cancel, or a clean of a single session, has completed with
\* every reclamation succeeding, no worktree of the session remains, the
\* worktree of an iteration without a record included.
C36_NoWorktreeRemains ==
  [][\A c \in Callers : ReclaimCompletes(c) => DOMAIN worktrees' = {}]_vars

\* What the code reclaims: afterwards no iteration with a record that
\* names a worktree path has its worktree left.
C36_NoRecordedWorktreeRemains ==
  [][\A c \in Callers :
       ReclaimCompletes(c) /\ store.exists =>
         \A k \in 1..Len(store.iterations) :
           store.iterations[k].worktreePath
             => store.iterations[k].iteration \notin DOMAIN worktrees']_vars

\* ---- C37 ----
\* The positions of finslipaMerge after git merge has merged the
\* iteration's branch into the base line.
AfterMergePcs == {"mrg_del", "mrg_us_load", "mrg_us_persist"}

\* C37: finalize is all-or-nothing: a call that has performed the merge
\* does not return a failure, and it returns with the session completed.
C37_FinalizeAllOrNothing ==
  [][\A c \in Callers :
       pc[c] \in AfterMergePcs /\ pc'[c] = "done"
         => loc'[c].result = "OK" /\ store'.status = "completed"]_vars

\* The same for a call that runs alone and whose reclamation of the merged
\* worktree succeeds.
C37_FinalizeAloneWithoutReclaimFailure ==
  [][\A c \in Callers :
       /\ ~overlapped
       /\ pc[c] \in AfterMergePcs \ {"mrg_del"}
       /\ pc'[c] = "done"
       => loc'[c].result = "OK" /\ store'.status = "completed"]_vars

\* ---- C39 ----
Reclaims == {"deleteWorktree", "deleteWorktreeByPath"}

Reclaimed(c) == pc[c] = "done" /\ loc[c].op \in Reclaims

\* The order of the commands C39 describes: version-control removal; when
\* it fails the deletion of the directory and, after it, a prune pass.
removalThenFallback(steps) ==
  /\ steps[1].cmd = "git worktree remove"
  /\ steps[1].ok => Len(steps) = 1
  /\ ~steps[1].ok =>
       /\ Len(steps) >= 2
       /\ steps[2].cmd = "rm"
       /\ steps[2].ok => Len(steps) = 3 /\ steps[3].cmd = "git worktree prune"

\* C39: every reclaim of a worktree, by branch name or by path, first
\* tries the version-control removal; when that fails it deletes the
\* directory and then prunes; it throws only if the fallback fails too.
C39_ReclaimFallsBack ==
  \A c \in Callers :
    Reclaimed(c) =>
      /\ removalThenFallback(loc[c].steps)
      /\ loc[c].result = "THROWN"
           => ~loc[c].steps[1].ok /\ reclaimThrows(loc[c].steps)

\* The part that holds of the reclaim by path.
C39_ReclaimByPathFallsBack ==
  \A c \in Callers :
    Reclaimed(c) /\ loc[c].op = "deleteWorktreeByPath" =>
      /\ removalThenFallback(loc[c].steps)
      /\ loc[c].result = "THROWN"
           => ~loc[c].steps[1].ok /\ reclaimThrows(loc[c].steps)

\* ---- C38 ----
\* Caller c's start returns the failure to create the first worktree.
StartFailsOnWorktree(c) ==
  /\ pc[c] = "start_wt"
  /\ pc'[c] = "done"
  /\ loc'[c].result = "WORKTREE_CREATION_FAILED"

\* C38: when start fails to create the first worktree, the session that
\* call created is not left in an active status, so that a later start
\* without force does not find it as the active session.
C38_FailedStartLeavesNoActiveSession ==
  [][\A c \in Callers :
       StartFailsOnWorktree(c) /\ ~overlapped => ~isActive(store')]_vars

\* What the code does instead: the session stays as createSession wrote
\* it, initializing.
C38_FailedStartLeavesInitializing ==
  [][\A c \in Callers :
       StartFailsOnWorktree(c) /\ ~overlapped
         => store'.exists /\ store'.status = "initializing"]_vars

====
